---- MODULE Spec2Model ----
(***************************************************************************)
(* Model of the openchessvision workflow orchestrator (WorkflowManager),   *)
(* its two asyncio locks, its debounce task, the Candidate Selector and    *)
(* the FEN comparison it relies on.                                        *)
(*                                                                         *)
(* asyncio runs one coroutine at a time, so each action is one run of a    *)
(* task from one suspension point (await) to the next.  Tasks:             *)
(*   RecTasks   explicit recognize_diagram calls (UI),                     *)
(*   SendTasks  explicit send_to_board calls (UI),                         *)
(*   DebTasks   debounced_recognize tasks made by _schedule_recognition,   *)
(*   EStop      an emergency_stop call.                                    *)
(***************************************************************************)
EXTENDS Integers, Sequences, FiniteSets, TLC

\* ------------------------------------------------------------------ bounds
\* explicit recognize_diagram calls alive at once
MaxRecCalls == 2
\* explicit send_to_board calls alive at once
MaxSendCalls == 1
\* debounce tasks alive at once (pending or cancelled)
MaxDebounce == 2

RecTasks == 11..(10 + MaxRecCalls)
SendTasks == 21..(20 + MaxSendCalls)
DebTasks == 31..(30 + MaxDebounce)
EStop == 41
NoTask == 0
Tasks == RecTasks \cup SendTasks \cup DebTasks \cup {EStop}

\* --------------------------------------------------------------------- FEN
\* A FEN string is a sequence of characters; None is a one-token sequence
\* that is no string of the alphabet.
NoneFen == <<"None">>
FenAw == <<"K", "/", "k", " ", "w">>
FenAb == <<"K", "/", "k", " ", "b">>
FenB == <<"k", "/", "K", " ", "w">>
Fens == {FenAw, FenAb, FenB}

\* str.split(): the maximal runs of non-space characters
RECURSIVE SplitFrom(_, _, _)
SplitFrom(s, i, cur) ==
    IF i > Len(s)
    THEN IF cur = <<>> THEN <<>> ELSE <<cur>>
    ELSE IF s[i] = " "
         THEN IF cur = <<>>
              THEN SplitFrom(s, i + 1, <<>>)
              ELSE <<cur>> \o SplitFrom(s, i + 1, <<>>)
         ELSE SplitFrom(s, i + 1, Append(cur, s[i]))

split(s) == SplitFrom(s, 1, <<>>)

get_piece_placement_only(fen) == split(fen)[1]

\* the piece map of a FEN: its piece placement, square by square
fen_to_piece_map(fen) == split(fen)[1]

\* the position a board is set up with when it connects
STARTING_FEN == <<"R", "/", "r", " ", "w">>

\* a board without pieces: {}
EmptyBoard == <<>>

positions_equal(fen1, fen2) ==
    get_piece_placement_only(fen1) = get_piece_placement_only(fen2)

\* ---------------------------------------------------------------- geometry
BoundingBox(x0, y0, x1, y1) == [x0 |-> x0, y0 |-> y0, x1 |-> x1, y1 |-> y1]

Max2(a, b) == IF a >= b THEN a ELSE b
Min2(a, b) == IF a <= b THEN a ELSE b

area(b) == (b.x1 - b.x0) * (b.y1 - b.y0)

\* a test on open boxes: boxes that only touch do not intersect
intersects_open(a, b) ==
    ~(a.x1 <= b.x0 \/ a.x0 >= b.x1 \/ a.y1 <= b.y0 \/ a.y0 >= b.y1)

intersects(a, b) ==
    ~(a.x1 < b.x0 \/ a.x0 > b.x1 \/ a.y1 < b.y0 \/ a.y0 > b.y1)

intersection_area(a, b) ==
    IF ~intersects(a, b)
    THEN 0
    ELSE (Min2(a.x1, b.x1) - Max2(a.x0, b.x0))
         * (Min2(a.y1, b.y1) - Max2(a.y0, b.y0))

\* intersection_area(viewport) / area, as numerator and denominator; 0.0
\* when the area is 0
visibility_fraction(b, viewport) ==
    IF area(b) = 0
    THEN [num |-> 0, den |-> 1]
    ELSE [num |-> intersection_area(b, viewport), den |-> area(b)]

\* a strict comparison with the threshold
visibility_at_least_strict(b, viewport, tenths) ==
    IF area(b) = 0
    THEN 0 > tenths
    ELSE intersection_area(b, viewport) * 10 > tenths * area(b)

\* visibility_fraction(viewport) >= tenths/10, in exact arithmetic
visibility_at_least(b, viewport, tenths) ==
    IF area(b) = 0
    THEN 0 >= tenths
    ELSE intersection_area(b, viewport) * 10 >= tenths * area(b)

\* -------------------------------------------------------------- candidates
DiagramCandidate(id, page, bbox) ==
    [candidate_id |-> id, page_number |-> page, bbox |-> bbox,
     diagram_type |-> "RASTER"]

NoCand == DiagramCandidate("none", 0, BoundingBox(0, 0, 0, 0))
CandA == DiagramCandidate("A", 0, BoundingBox(0, 0, 10, 10))
CandB == DiagramCandidate("B", 0, BoundingBox(0, 20, 10, 30))
Cands == {CandA, CandB}
CandIds == {c.candidate_id : c \in Cands}
PageCandidates == <<CandB, CandA>>

\* the same page detected again: diagram A keeps its candidate_id, its
\* diagram_type is classified differently
CandA_redetected == [CandA EXCEPT !.diagram_type = "UNKNOWN"]
RedetectedCandidates == <<CandB, CandA_redetected>>
Detections == {PageCandidates, RedetectedCandidates}

\* documents: their paths, their pages and their candidates by page
NoPath == "None"
Paths == {"a.pdf", "b.pdf"}
Pages == {0, 1}
NoCandidates == [i \in {} |-> <<>>]
CandidateMaps ==
    { [i \in {0} |-> PageCandidates],
      [i \in Pages |-> IF i = 0 THEN PageCandidates ELSE <<>>] }

\* viewports: A fully visible; A exactly at the 0.3 threshold with B fully
\* visible; A below the threshold with B visible; nothing visible
Viewports ==
    { BoundingBox(0, 0, 10, 15), BoundingBox(0, 7, 10, 30),
      BoundingBox(0, 8, 10, 30), BoundingBox(0, 40, 10, 50) }

\* the default min_visibility_fraction, in tenths
min_visibility_fraction == 3

\* a sort by bbox.y0 alone
KeyLess_y0_only(c, d) == c.bbox.y0 < d.bbox.y0

\* the sort key (bbox.y0, bbox.x0)
KeyLess(c, d) ==
    \/ c.bbox.y0 < d.bbox.y0
    \/ c.bbox.y0 = d.bbox.y0 /\ c.bbox.x0 < d.bbox.x0

\* list.sort is stable: the first of the visible candidates, in input
\* order, that no other visible candidate precedes by key
select_topmost_visible(candidates, viewport, threshold) ==
    LET vis == SelectSeq(candidates,
                 LAMBDA c : visibility_at_least(c.bbox, viewport, threshold))
    IN  IF vis = <<>>
        THEN NoCand
        ELSE LET first == CHOOSE i \in 1..Len(vis) :
                             /\ \A j \in 1..Len(vis) : ~KeyLess(vis[j], vis[i])
                             /\ \A j \in 1..(i - 1) : KeyLess(vis[i], vis[j])
             IN  vis[first]

\* --------------------------------------------------------------- positions
\* overall_confidence in hundredths
HighConfidence == 85

RecognizedPosition(fen, conf, src) ==
    [fen |-> fen, overall_confidence |-> conf, source_candidate_id |-> src]

NoPos == RecognizedPosition(NoneFen, 0, "none")

is_high_confidence(p) == p.overall_confidence >= HighConfidence

\* what a backend may return: <<fen, overall_confidence>>
BackendResults == {<<FenAw, 85>>, <<FenB, 84>>, <<NoneFen, 85>>}
\* the backend raises instead
BackendRaise == <<NoneFen, -1>>

\* ChessnutMoveDriver after __init__: no client, no reconnect task; task is
\* where reconnect_loop is suspended, cancel whether Task.cancel() has been
\* called on it, explicit whether the caller's last call was disconnect()
NoChessnut ==
    [status |-> "DISCONNECTED", client |-> FALSE, stop_requested |-> FALSE,
     reconnect_task |-> FALSE, task |-> "none", cancel |-> FALSE,
     explicit |-> FALSE]

\* no call of the BoundingBox methods recorded
NoGeo == [self |-> BoundingBox(0, 0, 0, 0), other |-> BoundingBox(0, 0, 0, 0),
          intersects |-> <<FALSE, FALSE>>, intersection_area |-> <<0, 0>>,
          visibility_fraction |-> [num |-> 0, den |-> 1], called |-> FALSE]

\* no select_topmost_visible call recorded
NoSel == [candidates |-> <<>>, viewport |-> BoundingBox(0, 0, 0, 0),
          threshold |-> 0, result |-> NoCand, called |-> FALSE]

\* ------------------------------------------------------------------- state
VARIABLES
    current_pdf_path,     \* WorkflowContext.current_pdf_path
    all_candidates,       \* WorkflowContext.all_candidates
    current_page,         \* WorkflowContext.current_page
    state,                \* WorkflowManager._state
    active_candidate,     \* WorkflowContext.active_candidate
    recognized_position,  \* WorkflowContext.recognized_position
    recognition_cache,    \* WorkflowContext.recognition_cache
    last_sent_fen,        \* WorkflowContext.last_sent_fen
    last_send_result,     \* WorkflowContext.last_send_result (its status)
    auto_sync_enabled,    \* WorkflowContext.auto_sync_enabled
    min_confidence_for_auto, \* WorkflowContext.min_confidence_for_auto
    connection_status,    \* BoardDriver.connection_status
    rlock,                \* WorkflowManager._recognition_lock
    slock,                \* WorkflowManager._send_lock
    debounce_task,        \* WorkflowManager._debounce_task
    pc,                   \* where each task is suspended
    t_cand,               \* a task's local `candidate`
    t_getter,             \* a recognize call's image_getter is not None
    t_fen,                \* a send call's local `fen`
    t_req,                \* a send call's require_confirmation
    cancel_req,           \* Task.cancel() was called and is not yet delivered
    ev,                   \* history: what the last step did and returned
    succeeded,            \* history: ids recognized since the last cache reset
    driven_fen,           \* history: FEN of the last set_position SUCCESS
    board_position,       \* MockBoardDriver._current_position
    observers,            \* WorkflowManager._observers, in registration order
    throwing,             \* the observers whose callbacks raise
    sel,                  \* a select_topmost_visible call: arguments, result
    geo,                  \* a call of the BoundingBox methods: arguments, results
    chessnut              \* ChessnutMoveDriver: _client, _stop_requested, _reconnect_task

ctx == <<state, active_candidate, recognized_position, recognition_cache,
         last_sent_fen, last_send_result, auto_sync_enabled, min_confidence_for_auto>>
locals == <<t_cand, t_getter, t_fen, t_req>>
\* the open document
doc == <<current_pdf_path, all_candidates, current_page>>
\* what the operations on diagrams, positions and the board leave alone
env == <<observers, throwing, sel, geo, chessnut, doc>>
vars == <<state, active_candidate, recognized_position, recognition_cache,
          last_sent_fen, last_send_result, auto_sync_enabled, min_confidence_for_auto,
          connection_status, rlock, slock, debounce_task, pc, t_cand,
          t_getter, t_fen, t_req, cancel_req, ev, succeeded,
          driven_fen, board_position, observers, throwing, sel, geo, chessnut, current_pdf_path,
          all_candidates, current_page>>

WorkflowState ==
    {"IDLE", "PDF_LOADED", "DIAGRAM_SELECTED", "POSITION_RECOGNIZED",
     "SENDING_TO_BOARD", "POSITION_SENT", "ERROR"}

ConnectionStatus == {"DISCONNECTED", "CONNECTED"}

\* what BoardDriver.set_position may do once it resolves
DriverOutcomes == {"SUCCESS", "FAILED", "IN_PROGRESS", "CANCELLED", "raise"}

\* the message of the SetPositionResult the driver returns, or the text of
\* the exception it raises
DriverMessage(outcome) ==
    CASE outcome = "SUCCESS" -> "Position set successfully"
      [] outcome = "FAILED" -> "Simulated failure"
      [] outcome = "IN_PROGRESS" -> "Moving"
      [] outcome = "CANCELLED" -> "Operation cancelled"
      [] outcome = "raise" -> "BLE write failed"

\* the observers that may be registered
ObserverIds == {"o1", "o2"}

Event(op, rec, res, cand, pos, called) ==
    [op |-> op, rec |-> rec, res |-> res, cand |-> cand, pos |-> pos,
     called |-> called, fen |-> NoneFen, req |-> FALSE, notes |-> <<>>,
     drv |-> "-", msg |-> "-", task |-> NoTask]

\* the event of a send_to_board(fen, require_confirmation) call
SendEvent(op, rec, res, cand, pos, called, fenArg, req) ==
    [op |-> op, rec |-> rec, res |-> res, cand |-> cand, pos |-> pos,
     called |-> called, fen |-> fenArg, req |-> req, notes |-> <<>>,
     drv |-> "-", msg |-> "-", task |-> NoTask]

\* the event e with the observer callbacks n made during the step
Notified(e, n) == [e EXCEPT !.notes = n]

TaskOp(t) == IF t \in DebTasks THEN "debounce" ELSE "send_to_board"

\* the event of the resolved driver call of task t: what the driver did
\* (drv) and the status and message of the SetPositionResult handed to the
\* caller
DriverEvent(t, status, message, outcome, n) ==
    [Event(TaskOp(t), "-", status, "none", NoPos, "-")
        EXCEPT !.drv = outcome, !.msg = message, !.notes = n, !.task = t]

\* the steps of callers that return nothing leave no history
Quiet == Event("-", "-", "-", "none", NoPos, "-")

\* the event of an on_pdf_closed call
Closed == Event("on_pdf_closed", "-", "-", "none", NoPos, "-")

Lock == [locked |-> FALSE, waiters |-> <<>>]

\* the WorkflowManager after construction
InitManager ==
    /\ state = "IDLE"
    /\ active_candidate = NoCand
    /\ recognized_position = NoPos
    /\ recognition_cache = [i \in CandIds |-> NoPos]
    /\ last_sent_fen = NoneFen
    /\ last_send_result = "None"
    /\ auto_sync_enabled = FALSE
    /\ min_confidence_for_auto = HighConfidence
    /\ connection_status = "DISCONNECTED"
    /\ rlock = Lock
    /\ slock = Lock
    /\ debounce_task = NoTask
    /\ pc = [t \in Tasks |-> "idle"]
    /\ t_cand = [t \in Tasks |-> NoCand]
    /\ t_getter = [t \in Tasks |-> FALSE]
    /\ t_fen = [t \in Tasks |-> NoneFen]
    /\ t_req = [t \in Tasks |-> FALSE]
    /\ cancel_req = [t \in Tasks |-> FALSE]
    /\ ev = Quiet
    /\ succeeded = {}
    /\ driven_fen = NoneFen
    /\ board_position = EmptyBoard
    /\ observers = <<>>
    /\ throwing = {}
    /\ chessnut = NoChessnut
    /\ current_pdf_path = NoPath
    /\ all_candidates = NoCandidates
    /\ current_page = 0

Init ==
    /\ InitManager
    /\ sel = NoSel
    /\ geo = NoGeo

\* ------------------------------------------------------------ asyncio.Lock
\* Lock.acquire takes the lock at once when it is free and every waiter is
\* cancelled; otherwise the caller queues.
LockFree(l) ==
    /\ ~l.locked
    /\ \A i \in 1..Len(l.waiters) : cancel_req[l.waiters[i]]

\* release wakes the first waiter; a cancelled first waiter passes the
\* wake-up on when its CancelledError is delivered.
CanResume(l, t) ==
    /\ ~l.locked
    /\ l.waiters # <<>>
    /\ Head(l.waiters) = t
    /\ ~cancel_req[t]

Without(q, t) == SelectSeq(q, LAMBDA x : x # t)

Enqueue(l, t) == [l EXCEPT !.waiters = Append(@, t)]

RecognitionLockFree_nolock == TRUE

RecognitionLockFree == LockFree(rlock)

SendLockFree_nolock == TRUE

SendLockFree == LockFree(slock)

\* the lowest idle slot of a task set
FirstIdle(S) ==
    IF \E t \in S : pc[t] = "idle"
    THEN CHOOSE t \in S : pc[t] = "idle" /\ \A u \in S : pc[u] = "idle" => t <= u
    ELSE NoTask

ClearLocals(t) ==
    /\ t_cand' = [t_cand EXCEPT ![t] = NoCand]
    /\ t_getter' = [t_getter EXCEPT ![t] = FALSE]
    /\ t_fen' = [t_fen EXCEPT ![t] = NoneFen]
    /\ t_req' = [t_req EXCEPT ![t] = FALSE]

\* ------------------------------------------------------- observer registry
\* `observer in self._observers`
Registered(o) == \E i \in 1..Len(observers) : observers[i] = o

\* an append without the membership test
add_observer_nodedupe(o) ==
    /\ observers' = Append(observers, o)
    /\ ev' = Quiet
    /\ UNCHANGED <<ctx, connection_status, rlock, slock, debounce_task, pc,
                   locals, cancel_req, succeeded, driven_fen, board_position, throwing, sel, geo, chessnut,
                   doc>>

add_observer(o) ==
    /\ observers' = IF Registered(o) THEN observers ELSE Append(observers, o)
    /\ ev' = Quiet
    /\ UNCHANGED <<ctx, connection_status, rlock, slock, debounce_task, pc,
                   locals, cancel_req, succeeded, driven_fen, board_position, throwing, sel, geo, chessnut,
                   doc>>

\* list.remove: the first occurrence goes
RECURSIVE RemoveFirst(_, _)
RemoveFirst(q, o) ==
    IF q = <<>> THEN <<>>
    ELSE IF Head(q) = o THEN Tail(q)
    ELSE <<Head(q)>> \o RemoveFirst(Tail(q), o)

remove_observer(o) ==
    /\ observers' = IF Registered(o) THEN RemoveFirst(observers, o)
                    ELSE observers
    /\ ev' = Quiet
    /\ UNCHANGED <<ctx, connection_status, rlock, slock, debounce_task, pc,
                   locals, cancel_req, succeeded, driven_fen, board_position, throwing, sel, geo, chessnut,
                   doc>>

\* an observer's callbacks start to raise
observer_fails(o) ==
    /\ o \notin throwing
    /\ throwing' = throwing \cup {o}
    /\ ev' = Quiet
    /\ UNCHANGED <<ctx, connection_status, rlock, slock, debounce_task, pc,
                   locals, cancel_req, succeeded, driven_fen, board_position, observers, sel, geo, chessnut,
                   doc>>

Note(kind, arg, to) == [kind |-> kind, arg |-> arg, to |-> to]

\* the callbacks made by `for observer in self._observers`, in order; with
\* uncaught a raising callback ends the loop
RECURSIVE Calls(_, _, _, _)
Calls(obs, kind, arg, uncaught) ==
    IF obs = <<>>
    THEN <<>>
    ELSE IF uncaught /\ Head(obs) \in throwing
         THEN <<Note(kind, arg, Head(obs))>>
         ELSE <<Note(kind, arg, Head(obs))>>
              \o Calls(Tail(obs), kind, arg, uncaught)

notify_uncaught(kind, arg) == Calls(observers, kind, arg, TRUE)

\* _notify_*: every callback runs inside its own try/except Exception
notify(kind, arg) == Calls(observers, kind, arg, FALSE)

\* f"{prefix}{e}"
ErrorText(prefix, e) == <<prefix, e>>

\* an exception that leaves the operation: nothing is notified or set
on_exception_unhandled(prefix, e) == [state |-> state, notes |-> <<>>]

\* except Exception as e: self._notify_error(f"{prefix}{e}") and
\* self._set_state(WorkflowState.ERROR)
on_exception(prefix, e) ==
    [state |-> "ERROR", notes |-> notify("error", ErrorText(prefix, e))]

\* ------------------------------------------------------- PDF and selection
\* an open that leaves the recognized position of the document before
on_pdf_opened_keep_position(path, candidates) ==
    /\ current_pdf_path' = path
    /\ all_candidates' = candidates
    /\ current_page' = 0
    /\ active_candidate' = NoCand
    /\ state' = "PDF_LOADED"
    /\ ev' = Quiet
    /\ UNCHANGED <<recognized_position, recognition_cache, last_sent_fen,
                   last_send_result, auto_sync_enabled, min_confidence_for_auto, connection_status,
                   rlock, slock, debounce_task, pc, locals, cancel_req,
                   succeeded, driven_fen, board_position, observers, throwing, sel, geo, chessnut>>

on_pdf_opened(path, candidates) ==
    /\ current_pdf_path' = path
    /\ all_candidates' = candidates
    /\ current_page' = 0
    /\ active_candidate' = NoCand
    /\ recognized_position' = NoPos
    /\ state' = "PDF_LOADED"
    /\ ev' = Quiet
    /\ UNCHANGED <<recognition_cache, last_sent_fen, last_send_result,
                   auto_sync_enabled, min_confidence_for_auto, connection_status, rlock, slock,
                   debounce_task, pc, locals, cancel_req,
                   succeeded, driven_fen, board_position,
                   observers, throwing, sel, geo, chessnut>>

\* a close that keeps the Context
on_pdf_closed_keep_context ==
    /\ state' = "IDLE"
    /\ ev' = Closed
    /\ UNCHANGED <<active_candidate, recognized_position, recognition_cache,
                   last_sent_fen, last_send_result, auto_sync_enabled, min_confidence_for_auto,
                   succeeded, connection_status, rlock, slock, debounce_task,
                   pc, locals, cancel_req, driven_fen, board_position, env>>

\* self._context = WorkflowContext(): every Context field back to its default
on_pdf_closed ==
    /\ active_candidate' = NoCand
    /\ recognized_position' = NoPos
    /\ recognition_cache' = [i \in CandIds |-> NoPos]
    /\ last_sent_fen' = NoneFen
    /\ last_send_result' = "None"
    /\ auto_sync_enabled' = FALSE
    /\ min_confidence_for_auto' = HighConfidence
    /\ current_pdf_path' = NoPath
    /\ all_candidates' = NoCandidates
    /\ current_page' = 0
    /\ state' = "IDLE"
    /\ succeeded' = {}
    /\ ev' = Closed
    /\ UNCHANGED <<connection_status, rlock, slock, debounce_task, pc, locals,
                   cancel_req, driven_fen, board_position,
                   observers, throwing, sel, geo, chessnut>>

\* cancel the previous task object, then create the new task; a new task
\* starts in (or before) its sleep
schedule_recognition_nocancel(candidate) ==
    LET d == FirstIdle(DebTasks)
        prev == debounce_task
    IN  /\ d # NoTask
        /\ cancel_req' = cancel_req
        /\ debounce_task' = d
        /\ pc' = [pc EXCEPT ![d] = "sleeping"]
        /\ t_cand' = [t_cand EXCEPT ![d] = candidate]

schedule_recognition(candidate) ==
    LET d == FirstIdle(DebTasks)
        prev == debounce_task
    IN  /\ d # NoTask
        /\ cancel_req' =
              IF prev # NoTask /\ pc[prev] # "idle"
              THEN [cancel_req EXCEPT ![prev] = TRUE] ELSE cancel_req
        /\ debounce_task' = d
        /\ pc' = [pc EXCEPT ![d] = "sleeping"]
        /\ t_cand' = [t_cand EXCEPT ![d] = candidate]

active_changed_always(new_active) == TRUE

\* new_active != self._context.active_candidate
active_changed(new_active) == new_active # active_candidate

on_viewport_changed(page_index, viewport, page_candidates) ==
    LET new_active == select_topmost_visible(page_candidates, viewport,
                                             min_visibility_fraction)
    IN  /\ current_page' = page_index
        /\ IF active_changed(new_active)
           THEN /\ active_candidate' = new_active
                /\ ev' = Notified(
                            Event("on_viewport_changed", "-", "changed",
                                  new_active.candidate_id, NoPos, "now"),
                            notify("active_diagram",
                                   new_active.candidate_id))
                /\ IF new_active # NoCand
                   THEN /\ state' = "DIAGRAM_SELECTED"
                        /\ IF auto_sync_enabled
                           THEN schedule_recognition(new_active)
                           ELSE UNCHANGED <<debounce_task, pc, t_cand,
                                            cancel_req>>
                   ELSE /\ state' = "PDF_LOADED"
                        /\ UNCHANGED <<debounce_task, pc, t_cand, cancel_req>>
           ELSE /\ ev' = Quiet
                /\ UNCHANGED <<active_candidate, state, debounce_task, pc,
                               t_cand, cancel_req>>
        /\ UNCHANGED <<recognized_position, recognition_cache, last_sent_fen,
                       last_send_result, auto_sync_enabled, min_confidence_for_auto, connection_status,
                       rlock, slock, t_getter, t_fen, t_req, succeeded,
                       driven_fen, board_position, observers, throwing, sel, geo, chessnut,
                       current_pdf_path, all_candidates>>

\* a manual selection that arms the debounce as a viewport change does
select_diagram_autoschedule(candidate) ==
    /\ active_candidate' = candidate
    /\ state' = "DIAGRAM_SELECTED"
    /\ ev' = Notified(Event("select_diagram", "-", "-",
                            candidate.candidate_id, NoPos, "now"),
                      notify("active_diagram", candidate.candidate_id))
    /\ IF auto_sync_enabled
       THEN schedule_recognition(candidate)
       ELSE UNCHANGED <<debounce_task, pc, t_cand, cancel_req>>
    /\ UNCHANGED <<recognized_position, recognition_cache, last_sent_fen,
                   last_send_result, auto_sync_enabled, min_confidence_for_auto, connection_status,
                   rlock, slock, t_getter, t_fen, t_req, succeeded,
                   driven_fen, board_position, env>>

select_diagram(candidate) ==
    /\ active_candidate' = candidate
    /\ state' = "DIAGRAM_SELECTED"
    /\ ev' = Notified(Event("select_diagram", "-", "-",
                            candidate.candidate_id, NoPos, "now"),
                      notify("active_diagram", candidate.candidate_id))
    /\ UNCHANGED <<recognized_position, recognition_cache, last_sent_fen,
                   last_send_result, auto_sync_enabled, min_confidence_for_auto, connection_status,
                   rlock, slock, debounce_task, pc, locals, cancel_req, succeeded, driven_fen, board_position,
                   env>>

set_auto_sync(enabled) ==
    /\ auto_sync_enabled' = enabled
    /\ ev' = Quiet
    /\ UNCHANGED <<min_confidence_for_auto, state, active_candidate, recognized_position,
                   recognition_cache, last_sent_fen, last_send_result,
                   connection_status, rlock, slock, debounce_task, pc, locals,
                   cancel_req, succeeded, driven_fen, board_position,
                   env>>

\* max(0.0, min(1.0, confidence)), in hundredths
clamp(confidence) == Max2(0, Min2(100, confidence))

set_min_confidence(confidence) ==
    /\ min_confidence_for_auto' = clamp(confidence)
    /\ ev' = Quiet
    /\ UNCHANGED <<auto_sync_enabled, state, active_candidate,
                   recognized_position, recognition_cache, last_sent_fen,
                   last_send_result, connection_status, rlock, slock,
                   debounce_task, pc, locals, cancel_req, succeeded,
                   driven_fen, board_position, env>>

clear_cache ==
    /\ recognition_cache' = [i \in CandIds |-> NoPos]
    /\ succeeded' = {}
    /\ ev' = Quiet
    /\ UNCHANGED <<state, active_candidate, recognized_position,
                   last_sent_fen, last_send_result, auto_sync_enabled, min_confidence_for_auto,
                   connection_status, rlock, slock, debounce_task, pc, locals,
                   cancel_req, driven_fen, board_position,
                   env>>

\* connect_board, when the driver's connect resolves to CONNECTED
connect_board ==
    /\ connection_status' = "CONNECTED"
    /\ board_position' = fen_to_piece_map(STARTING_FEN)
    /\ ev' = Notified(Quiet, notify("connection_status", "CONNECTING")
                             \o notify("connection_status", "CONNECTED"))
    /\ UNCHANGED <<ctx, rlock, slock, debounce_task, pc, locals, cancel_req, succeeded, driven_fen,
                   env>>

disconnect_board ==
    /\ connection_status' = "DISCONNECTED"
    /\ board_position' = EmptyBoard
    /\ ev' = Notified(Quiet, notify("connection_status", "DISCONNECTED"))
    /\ UNCHANGED <<ctx, rlock, slock, debounce_task, pc, locals, cancel_req, succeeded, driven_fen,
                   env>>

\* ------------------------------------------------------------- recognition
cache_store_skip(cache, id, position) == cache

cache_store(cache, id, position) == [cache EXCEPT ![id] = position]

Released(q) == [locked |-> FALSE, waiters |-> q]
Held(q) == [locked |-> TRUE, waiters |-> q]

\* recognize_diagram from the acquisition of the recognition lock to its
\* return or to the await of the executor; q is the waiter queue without t
RecognizeSection(t, cand, getter, q) ==
    LET id == cand.candidate_id
        cached == recognition_cache[id]
    IN  \/ /\ cached # NoPos
           /\ recognized_position' = cached
           /\ state' = "POSITION_RECOGNIZED"
           /\ rlock' = Released(q)
           /\ pc' = [pc EXCEPT ![t] = "idle"]
           /\ ClearLocals(t)
           /\ ev' = Notified(Event("recognize_diagram", "hit", "-", id,
                                   cached, "-"),
                             notify("position_recognized", id))
        \/ /\ cached = NoPos
           /\ ~getter
           /\ rlock' = Released(q)
           /\ pc' = [pc EXCEPT ![t] = "idle"]
           /\ ClearLocals(t)
           /\ ev' = Event("recognize_diagram", "none:nogetter", "-", id,
                          NoPos, "-")
           /\ UNCHANGED <<recognized_position, state>>
        \/ /\ cached = NoPos
           /\ getter
           /\ \/ \* image_getter raises
                 /\ state' = on_exception("Recognition failed: ",
                                          "image error").state
                 /\ rlock' = Released(q)
                 /\ pc' = [pc EXCEPT ![t] = "idle"]
                 /\ ClearLocals(t)
                 /\ ev' = Notified(Event("recognize_diagram", "none:error",
                                         "-", id, NoPos, "image_getter"),
                                   on_exception("Recognition failed: ",
                                                "image error").notes)
                 /\ UNCHANGED recognized_position
              \/ \* run_in_executor(self._recognition.recognize, image)
                 /\ rlock' = Held(q)
                 /\ pc' = [pc EXCEPT ![t] = "in_backend"]
                 /\ t_cand' = [t_cand EXCEPT ![t] = cand]
                 /\ t_getter' = [t_getter EXCEPT ![t] = getter]
                 /\ ev' = Event("recognize_diagram", "pending", "-", id,
                                NoPos, "backend")
                 /\ UNCHANGED <<recognized_position, state, t_fen, t_req>>

\* a call without a candidate falls back on the first diagram of the page
resolve_candidate_first(candArg) ==
    IF candArg = NoCand THEN PageCandidates[1] ELSE candArg

\* if candidate is None: candidate = self._context.active_candidate
resolve_candidate(candArg) ==
    IF candArg = NoCand THEN active_candidate ELSE candArg

\* an explicit recognize_diagram(candidate, image_getter) call
RecognizeCall(t, candArg, getter) ==
    LET cand == resolve_candidate(candArg)
    IN  /\ t = FirstIdle(RecTasks)
        /\ IF cand = NoCand
           THEN /\ ev' = Event("recognize_diagram", "none:nocandidate",
                               "-", "none", NoPos, "-")
                /\ UNCHANGED <<recognized_position, state, rlock, pc, locals>>
           ELSE IF RecognitionLockFree
                THEN RecognizeSection(t, cand, getter, rlock.waiters)
                ELSE /\ rlock' = Enqueue(rlock, t)
                     /\ pc' = [pc EXCEPT ![t] = "wait_rlock"]
                     /\ t_cand' = [t_cand EXCEPT ![t] = cand]
                     /\ t_getter' = [t_getter EXCEPT ![t] = getter]
                     /\ ev' = Event("recognize_diagram", "wait", "-",
                                    cand.candidate_id, NoPos, "-")
                     /\ UNCHANGED <<recognized_position, state, t_fen, t_req>>
        /\ UNCHANGED <<active_candidate, recognition_cache, last_sent_fen,
                       last_send_result, auto_sync_enabled, min_confidence_for_auto, connection_status,
                       slock, debounce_task, cancel_req,
                       succeeded, driven_fen, board_position,
                       env>>

\* a queued recognize_diagram call is handed the recognition lock
RecognizeResume(t) ==
    /\ pc[t] = "wait_rlock"
    /\ CanResume(rlock, t)
    /\ RecognizeSection(t, t_cand[t], t_getter[t], Tail(rlock.waiters))
    /\ UNCHANGED <<active_candidate, recognition_cache, last_sent_fen,
                   last_send_result, auto_sync_enabled, min_confidence_for_auto, connection_status,
                   slock, debounce_task, cancel_req, succeeded,
                   driven_fen, board_position,
                   env>>

\* the executor resolves: a position, or an exception of the backend
BackendReturn(t, r) ==
    LET id == t_cand[t].candidate_id
    IN  /\ pc[t] = "in_backend"
        /\ \/ /\ r # BackendRaise
              /\ LET position == RecognizedPosition(r[1], r[2], id)
                 IN  /\ recognition_cache' =
                            cache_store(recognition_cache, id, position)
                     /\ recognized_position' = position
                     /\ state' = "POSITION_RECOGNIZED"
                     /\ succeeded' = succeeded \cup {id}
                     /\ ev' = Notified(Event("recognize_diagram",
                                             "recognized", "-", id,
                                             position, "-"),
                                       notify("position_recognized", id))
           \/ /\ r = BackendRaise
              /\ state' = on_exception("Recognition failed: ",
                                       "backend error").state
              /\ ev' = Notified(Event("recognize_diagram", "none:error",
                                      "-", id, NoPos, "-"),
                                on_exception("Recognition failed: ",
                                             "backend error").notes)
              /\ UNCHANGED <<recognition_cache, recognized_position,
                             succeeded>>
        /\ rlock' = Released(rlock.waiters)
        /\ pc' = [pc EXCEPT ![t] = "idle"]
        /\ ClearLocals(t)
        /\ UNCHANGED <<active_candidate, last_sent_fen, last_send_result,
                       auto_sync_enabled, min_confidence_for_auto, connection_status, slock,
                       debounce_task, cancel_req, driven_fen, board_position,
                       env>>

\* ------------------------------------------------------------ send_to_board
Decision(kind, fen) == [kind |-> kind, fen |-> fen]

\* the confidence gate of send_to_board
confidence_gate_own_fen(fenArg, req, rp) ==
    fenArg = NoneFen /\ ~req /\ rp # NoPos /\ ~is_high_confidence(rp)

confidence_gate(fenArg, req, rp) ==
    ~req /\ rp # NoPos /\ ~is_high_confidence(rp)

\* send_to_board from the acquisition of the send lock up to the driver
\* call: the early return taken, or "drive" with the resolved FEN
\* a send that does not look at the board connection
send_decision_unconnected(fenArg, req, rp, lsf, conn) ==
    IF fenArg = NoneFen /\ rp = NoPos
    THEN Decision("no_position", NoneFen)
    ELSE LET fen == IF fenArg = NoneFen THEN rp.fen ELSE fenArg
         IN  IF fen = NoneFen
             THEN Decision("no_fen", NoneFen)
             ELSE IF lsf # NoneFen /\ positions_equal(fen, lsf)
             THEN Decision("already_set", fen)
             ELSE IF confidence_gate(fenArg, req, rp)
             THEN Decision("low_confidence", fen)
             ELSE Decision("drive", fen)

send_decision(fenArg, req, rp, lsf, conn) ==
    IF fenArg = NoneFen /\ rp = NoPos
    THEN Decision("no_position", NoneFen)
    ELSE LET fen == IF fenArg = NoneFen THEN rp.fen ELSE fenArg
         IN  IF fen = NoneFen
             THEN Decision("no_fen", NoneFen)
             ELSE IF lsf # NoneFen /\ positions_equal(fen, lsf)
             THEN Decision("already_set", fen)
             ELSE IF conn # "CONNECTED"
             THEN Decision("not_connected", fen)
             ELSE IF confidence_gate(fenArg, req, rp)
             THEN Decision("low_confidence", fen)
             ELSE Decision("drive", fen)

\* the part of a send after the lock is taken, for task t, given the
\* Context's recognized_position rp; rec is what a recognition in the same
\* step returned, q the waiter queue without t
SendSection(t, op, fenArg, req, rp, st, rec, id, pos, q) ==
    LET d == send_decision(fenArg, req, rp, last_sent_fen, connection_status)
        n == IF rec = "hit" THEN notify("position_recognized", id) ELSE <<>>
    IN  IF d.kind = "drive"
        THEN /\ state' = "SENDING_TO_BOARD"
             /\ slock' = Held(q)
             /\ pc' = [pc EXCEPT ![t] = "in_driver"]
             /\ t_fen' = [t_fen EXCEPT ![t] = d.fen]
             /\ t_req' = [t_req EXCEPT ![t] = req]
             /\ ev' = Notified(SendEvent(op, rec, "pending", id, pos,
                                         "set_position", fenArg, req), n)
             /\ UNCHANGED <<t_getter>>
        ELSE /\ state' = st
             /\ slock' = Released(q)
             /\ pc' = [pc EXCEPT ![t] = "idle"]
             /\ t_fen' = [t_fen EXCEPT ![t] = NoneFen]
             /\ t_req' = [t_req EXCEPT ![t] = FALSE]
             /\ ev' = Notified(SendEvent(op, rec, d.kind, id, pos, "-",
                                         fenArg, req), n)
             /\ UNCHANGED <<t_getter>>

\* an explicit send_to_board(fen, require_confirmation) call
SendCall(t, fenArg, req) ==
    /\  /\ t = FirstIdle(SendTasks)
        /\ IF SendLockFree
           THEN SendSection(t, "send_to_board", fenArg, req,
                            recognized_position, state, "-", "none", NoPos,
                            slock.waiters)
           ELSE /\ slock' = Enqueue(slock, t)
                /\ pc' = [pc EXCEPT ![t] = "wait_slock"]
                /\ t_fen' = [t_fen EXCEPT ![t] = fenArg]
                /\ t_req' = [t_req EXCEPT ![t] = req]
                /\ ev' = Event("send_to_board", "-", "wait", "none", NoPos,
                               "-")
                /\ UNCHANGED <<state, t_getter>>
        /\ UNCHANGED <<active_candidate, recognized_position,
                       recognition_cache, last_sent_fen, last_send_result,
                       auto_sync_enabled, min_confidence_for_auto, connection_status, rlock,
                       debounce_task, t_cand, cancel_req,
                       succeeded, driven_fen, board_position,
                       env>>

\* a queued send_to_board call is handed the send lock
SendResume(t) ==
    /\ t \in SendTasks
    /\ pc[t] = "wait_slock"
    /\ CanResume(slock, t)
    /\ SendSection(t, "send_to_board", t_fen[t], t_req[t],
                   recognized_position, state, "-", "none", NoPos,
                   Tail(slock.waiters))
    /\ UNCHANGED <<active_candidate, recognized_position, recognition_cache,
                   last_sent_fen, last_send_result, auto_sync_enabled, min_confidence_for_auto,
                   connection_status, rlock, debounce_task, t_cand,
                   cancel_req, succeeded, driven_fen, board_position,
                   env>>

\* a finished debounce task leaves its slot
EndTask(t) ==
    /\ pc' = [pc EXCEPT ![t] = "idle"]
    /\ cancel_req' = [cancel_req EXCEPT ![t] = FALSE]

\* the state a returned SetPositionResult leads to
state_after_send_lenient(status) ==
    IF status \in {"SUCCESS", "IN_PROGRESS"} THEN "POSITION_SENT" ELSE "ERROR"

state_after_send(status) ==
    IF status = "SUCCESS" THEN "POSITION_SENT" ELSE "ERROR"

\* BoardDriver.set_position resolves for the send of task t: it returns a
\* SetPositionResult, which send_to_board returns as it is, or it raises
\* and send_to_board returns FAILED with str(e)
DriverReturn(t, outcome) ==
    /\ pc[t] = "in_driver"
    /\ ~cancel_req[t]
    /\ IF outcome = "raise"
       THEN /\ state' = on_exception("Failed to send position: ",
                                     DriverMessage(outcome)).state
            /\ ev' = DriverEvent(t, "FAILED", DriverMessage(outcome),
                                 outcome,
                                 on_exception("Failed to send position: ",
                                              DriverMessage(outcome)).notes)
            /\ UNCHANGED <<last_sent_fen, last_send_result, driven_fen, board_position>>
       ELSE /\ IF outcome = "SUCCESS"
               THEN /\ last_sent_fen' = t_fen[t]
                    /\ driven_fen' = t_fen[t]
                    /\ board_position' = fen_to_piece_map(t_fen[t])
               ELSE UNCHANGED <<last_sent_fen, driven_fen, board_position>>
            /\ state' = state_after_send(outcome)
            /\ last_send_result' = outcome
            /\ ev' = DriverEvent(t, outcome, DriverMessage(outcome),
                                 outcome, notify("position_sent", outcome))
    /\ slock' = Released(slock.waiters)
    /\ EndTask(t)
    /\ ClearLocals(t)
    /\ UNCHANGED <<active_candidate, recognized_position, recognition_cache,
                   auto_sync_enabled, min_confidence_for_auto, connection_status, rlock,
                   debounce_task, succeeded, env>>

\* ------------------------------------------------------ debounced_recognize
\* debounced_recognize from the acquisition of the recognition lock:
\* recognize_diagram(candidate) is called without an image_getter, so it
\* returns the cached position or none; then the auto-send test reads the
\* Context's recognized_position
DebounceBody(d, rq) ==
    LET id == t_cand[d].candidate_id
        cached == recognition_cache[id]
        hit == cached # NoPos
        rp1 == IF hit THEN cached ELSE recognized_position
        st1 == IF hit THEN "POSITION_RECOGNIZED" ELSE state
        rec == IF hit THEN "hit" ELSE "none:nogetter"
        n == IF hit THEN notify("position_recognized", id) ELSE <<>>
    IN  /\ rlock' = Released(rq)
        /\ recognized_position' = rp1
        /\ IF rp1 # NoPos /\ is_high_confidence(rp1)
           THEN IF SendLockFree
                THEN /\ SendSection(d, "debounce", NoneFen, FALSE, rp1, st1,
                                    rec, id, cached, slock.waiters)
                     /\ t_cand' = [t_cand EXCEPT ![d] = NoCand]
                ELSE /\ slock' = Enqueue(slock, d)
                     /\ pc' = [pc EXCEPT ![d] = "wait_slock"]
                     /\ state' = st1
                     /\ t_cand' = [t_cand EXCEPT ![d] = NoCand]
                     /\ ev' = Notified(Event("debounce", rec, "wait", id,
                                             cached, "-"), n)
                     /\ UNCHANGED <<t_getter, t_fen, t_req>>
           ELSE /\ pc' = [pc EXCEPT ![d] = "idle"]
                /\ state' = st1
                /\ t_cand' = [t_cand EXCEPT ![d] = NoCand]
                /\ ev' = Notified(Event("debounce", rec, "no_send", id,
                                        cached, "-"), n)
                /\ UNCHANGED <<slock, t_getter, t_fen, t_req>>
        /\ UNCHANGED <<active_candidate, recognition_cache, last_sent_fen,
                       last_send_result, auto_sync_enabled, min_confidence_for_auto, connection_status,
                       debounce_task, cancel_req, succeeded, driven_fen, board_position,
                       env>>

\* asyncio.sleep(debounce_ms / 1000) has elapsed
DebounceFire(d) ==
    /\ pc[d] = "sleeping"
    /\ ~cancel_req[d]
    /\ IF RecognitionLockFree
       THEN DebounceBody(d, rlock.waiters)
       ELSE /\ rlock' = Enqueue(rlock, d)
            /\ pc' = [pc EXCEPT ![d] = "wait_rlock"]
            /\ ev' = Event("debounce", "wait", "-",
                           t_cand[d].candidate_id, NoPos, "-")
            /\ UNCHANGED <<ctx, connection_status, slock, debounce_task,
                           locals, cancel_req, succeeded,
                           driven_fen, board_position,
                           env>>

\* a debounce task queued on the recognition lock is handed it
DebounceResumeRecognize(d) ==
    /\ d \in DebTasks
    /\ pc[d] = "wait_rlock"
    /\ CanResume(rlock, d)
    /\ DebounceBody(d, Tail(rlock.waiters))

\* a debounce task queued on the send lock is handed it
DebounceResumeSend(d) ==
    /\ d \in DebTasks
    /\ pc[d] = "wait_slock"
    /\ CanResume(slock, d)
    /\ SendSection(d, "debounce", NoneFen, FALSE, recognized_position, state,
                   "-", "none", NoPos, Tail(slock.waiters))
    /\ UNCHANGED <<active_candidate, recognized_position, recognition_cache,
                   last_sent_fen, last_send_result, auto_sync_enabled, min_confidence_for_auto,
                   connection_status, rlock, debounce_task, t_cand,
                   cancel_req, succeeded, driven_fen, board_position,
                   env>>

\* the CancelledError of Task.cancel() is thrown into the task at the await
\* it is suspended in.  In the sleep or in a lock queue the task ends there.
\* Inside set_position the driver decides: ChessnutMoveDriver lets the
\* error through (send_to_board's `except Exception` does not catch it),
\* MockBoardDriver catches it and returns CANCELLED.
CancelDeliver(d) ==
    /\ cancel_req[d]
    /\ pc[d] # "idle"
    /\ EndTask(d)
    /\ ClearLocals(d)
    /\ \/ /\ pc[d] = "sleeping"
          /\ ev' = Event("debounce_cancelled", "-", "sleep", "none",
                         NoPos, "-")
          /\ UNCHANGED <<state, last_send_result, rlock, slock>>
       \/ /\ pc[d] = "wait_rlock"
          /\ rlock' = [rlock EXCEPT !.waiters = Without(@, d)]
          /\ ev' = Event("debounce_cancelled", "-", "wait_rlock", "none",
                         NoPos, "-")
          /\ UNCHANGED <<state, last_send_result, slock>>
       \/ /\ pc[d] = "wait_slock"
          /\ slock' = [slock EXCEPT !.waiters = Without(@, d)]
          /\ ev' = Event("debounce_cancelled", "-", "wait_slock", "none",
                         NoPos, "-")
          /\ UNCHANGED <<state, last_send_result, rlock>>
       \/ /\ pc[d] = "in_driver"
          /\ slock' = Released(slock.waiters)
          /\ \/ /\ ev' = Event("debounce_cancelled", "-", "in_driver",
                               "none", NoPos, "-")
                /\ UNCHANGED <<state, last_send_result>>
             \/ /\ state' = "ERROR"
                /\ last_send_result' = "CANCELLED"
                /\ ev' = DriverEvent(d, "CANCELLED",
                                     DriverMessage("CANCELLED"), "CANCELLED",
                                     notify("position_sent", "CANCELLED"))
          /\ UNCHANGED rlock
    /\ UNCHANGED <<active_candidate, recognized_position, recognition_cache,
                   last_sent_fen, auto_sync_enabled, min_confidence_for_auto, connection_status,
                   debounce_task, succeeded, driven_fen, board_position,
                   env>>

\* ------------------------------------------------------------ emergency_stop
\* emergency_stop runs straight into `await self._board.stop_motion()`
emergency_stop_locked ==
    /\ pc[EStop] = "idle"
    /\ SendLockFree
    /\ pc' = [pc EXCEPT ![EStop] = "in_stop"]
    /\ ev' = Event("emergency_stop", "-", "pending", "none", NoPos,
                   "stop_motion")
    /\ UNCHANGED <<ctx, connection_status, rlock, slock, debounce_task,
                   locals, cancel_req, succeeded, driven_fen, board_position,
                   env>>

emergency_stop ==
    /\ pc[EStop] = "idle"
    /\ pc' = [pc EXCEPT ![EStop] = "in_stop"]
    /\ ev' = Event("emergency_stop", "-", "pending", "none", NoPos,
                   "stop_motion")
    /\ UNCHANGED <<ctx, connection_status, rlock, slock, debounce_task,
                   locals, cancel_req, succeeded, driven_fen, board_position,
                   env>>

\* a stop that turns what stop_motion raises into the ERROR state
StopReturn_error(raises) ==
    /\ pc[EStop] = "in_stop"
    /\ pc' = [pc EXCEPT ![EStop] = "idle"]
    /\ state' = IF raises THEN "ERROR" ELSE state
    /\ ev' = Event("emergency_stop", "-",
                   IF raises THEN "raised" ELSE "returned", "none", NoPos,
                   "-")
    /\ UNCHANGED <<active_candidate, recognized_position, recognition_cache,
                   last_sent_fen, last_send_result, auto_sync_enabled, min_confidence_for_auto,
                   connection_status, rlock, slock, debounce_task,
                   locals, cancel_req, succeeded, driven_fen, board_position,
                   env>>

\* stop_motion resolves; nothing in emergency_stop catches what it raises
StopReturn(raises) ==
    /\ pc[EStop] = "in_stop"
    /\ pc' = [pc EXCEPT ![EStop] = "idle"]
    /\ ev' = Event("emergency_stop", "-",
                   IF raises THEN "raised" ELSE "returned", "none", NoPos,
                   "-")
    /\ UNCHANGED <<ctx, connection_status, rlock, slock, debounce_task,
                   locals, cancel_req, succeeded, driven_fen, board_position,
                   env>>

\* ------------------------------------------------------------ the Selector
\* the inputs of a select_topmost_visible call made on its own

\* longest candidate list passed to the Selector
MaxCandidates == 3

\* H lies highest; A and C share y0 and differ in x0 and page; B and D have
\* the same box on different pages; Z has no area
SelectorPool ==
    { DiagramCandidate("H", 0, BoundingBox(20, 0, 30, 9)),
      DiagramCandidate("A", 0, BoundingBox(0, 1, 10, 11)),
      DiagramCandidate("C", 1, BoundingBox(20, 1, 30, 11)),
      DiagramCandidate("B", 0, BoundingBox(0, 20, 10, 30)),
      DiagramCandidate("D", 2, BoundingBox(0, 20, 10, 30)),
      DiagramCandidate("Z", 0, BoundingBox(5, 0, 5, 0)) }

\* the top of the page; A and C three tenths visible, H one ninth; A and C
\* two tenths visible, H touching the edge; nothing visible
SelectorViewports ==
    { BoundingBox(0, 0, 30, 15), BoundingBox(0, 8, 30, 30),
      BoundingBox(0, 9, 30, 30), BoundingBox(0, 40, 10, 50) }

\* min_visibility_fraction arguments, in tenths: 0.0, the default, 1.0
SelectorThresholds == {0, min_visibility_fraction, 10}

\* lists of distinct candidates
CandidateLists ==
    UNION { { q \in [1..n -> SelectorPool] :
                \A i, j \in 1..n : q[i] = q[j] => i = j }
            : n \in 0..MaxCandidates }

InitSelector ==
    /\ InitManager
    /\ sel \in [candidates : CandidateLists, viewport : SelectorViewports,
                 threshold : SelectorThresholds, result : {NoCand},
                 called : {FALSE}]
    /\ geo = NoGeo

\* result = select_topmost_visible(candidates, viewport, threshold)
call_select_topmost_visible ==
    /\ ~sel.called
    /\ sel' = [sel EXCEPT
                 !.result = select_topmost_visible(sel.candidates,
                                                   sel.viewport,
                                                   sel.threshold),
                 !.called = TRUE]
    /\ UNCHANGED <<ctx, connection_status, rlock, slock, debounce_task, pc,
                   locals, cancel_req, ev, succeeded, driven_fen, board_position, observers,
                   throwing, doc, geo, chessnut>>

\* ----------------------------------------------------- ChessnutMoveDriver
\* auto_reconnect, the default of the constructor
auto_reconnect == TRUE

\* the frame of the driver's own steps
ChessnutFrame ==
    UNCHANGED <<ctx, connection_status, rlock, slock, debounce_task, pc, locals, cancel_req,
                succeeded, driven_fen, board_position, observers, throwing,
                sel, geo, doc>>

\* disconnect() up to `await self._client.disconnect()`: the stop flag is
\* set and the reconnect task, if there is one, is cancelled and forgotten
Disconnecting(c) ==
    [c EXCEPT !.stop_requested = TRUE,
              !.cancel = IF c.reconnect_task THEN TRUE ELSE c.cancel,
              !.reconnect_task = FALSE]

\* an explicit disconnect() of the caller
chessnut_disconnect ==
    /\ chessnut' = [Disconnecting(chessnut) EXCEPT !.client = FALSE,
                                                   !.explicit = TRUE,
                                                   !.status = "DISCONNECTED"]
    /\ ev' = Event("disconnect", "-", "-", "none", NoPos, "-")
    /\ ChessnutFrame

\* an explicit connect(device) of the caller to a reachable device: an
\* existing client is disconnected first, then the new client connects
chessnut_connect ==
    /\ chessnut' = [(IF chessnut.client THEN Disconnecting(chessnut)
                     ELSE chessnut)
                       EXCEPT !.stop_requested = FALSE, !.client = TRUE,
                              !.explicit = FALSE, !.status = "CONNECTED"]
    /\ ev' = Event("connect", "-", "CONNECTED", "none", NoPos, "-")
    /\ ChessnutFrame

\* _on_disconnect, the disconnected callback of the client, and
\* _start_reconnect
on_disconnect ==
    /\ chessnut.client
    /\ chessnut.status = "CONNECTED"
    /\ chessnut' =
          IF auto_reconnect /\ ~chessnut.stop_requested
                /\ ~chessnut.reconnect_task
          THEN [chessnut EXCEPT !.status = "DISCONNECTED",
                                !.reconnect_task = TRUE,
                                !.task = "sleeping", !.cancel = FALSE]
          ELSE [chessnut EXCEPT !.status = "DISCONNECTED"]
    /\ ev' = Event("_on_disconnect", "-", "-", "none", NoPos, "-")
    /\ ChessnutFrame

\* reconnect_loop after its sleep: self.connect(...) runs up to its first
\* await that suspends.  With the lost client still set, connect calls
\* disconnect(), which cancels the running reconnect task itself; the
\* CancelledError waits for the next suspension, in client.disconnect() or,
\* when that returns at once, in the device lookup of connect
reconnect_loop_attempt ==
    /\ chessnut.task = "sleeping"
    /\ ~chessnut.cancel
    /\ IF chessnut.client
       THEN \/ chessnut' = [Disconnecting(chessnut)
                              EXCEPT !.task = "in_disconnect"]
            \/ chessnut' = [Disconnecting(chessnut)
                              EXCEPT !.client = FALSE,
                                     !.stop_requested = FALSE,
                                     !.status = "CONNECTING",
                                     !.task = "in_connect"]
       ELSE chessnut' = [chessnut EXCEPT !.stop_requested = FALSE,
                                         !.status = "CONNECTING",
                                         !.task = "in_connect"]
    /\ ev' = Event("reconnect_loop", "-", "attempt", "none", NoPos, "connect")
    /\ ChessnutFrame

\* the CancelledError reaches the reconnect task at the await it is
\* suspended in; neither `except Exception` of connect, disconnect and the
\* loop catches it, the `finally` of disconnect drops the client
reconnect_loop_cancelled ==
    /\ chessnut.task \in {"sleeping", "in_disconnect", "in_connect"}
    /\ chessnut.cancel
    /\ chessnut' = [chessnut EXCEPT
                      !.task = "none", !.cancel = FALSE,
                      !.client = IF chessnut.task = "in_disconnect"
                                 THEN FALSE ELSE @]
    /\ ev' = Event("reconnect_loop", "-", "cancelled", "none", NoPos, "-")
    /\ ChessnutFrame

\* the connect of the loop reaches the device: CONNECTED, break, and the
\* task forgets itself
reconnect_loop_connected ==
    /\ chessnut.task = "in_connect"
    /\ ~chessnut.cancel
    /\ chessnut' = [chessnut EXCEPT !.client = TRUE, !.task = "none",
                                    !.reconnect_task = FALSE,
                                    !.status = "CONNECTED"]
    /\ ev' = Event("reconnect_loop", "-", "CONNECTED", "none", NoPos, "-")
    /\ ChessnutFrame

\* ------------------------------------------------------------ BoundingBox
\* largest coordinate of the boxes handed to the BoundingBox methods
MaxCoord == 3

\* the boxes with x1 >= x0 and y1 >= y0
Boxes ==
    { b \in [x0 : 0..MaxCoord, y0 : 0..MaxCoord,
             x1 : 0..MaxCoord, y1 : 0..MaxCoord] :
        b.x1 >= b.x0 /\ b.y1 >= b.y0 }

InitGeometry ==
    /\ InitManager
    /\ sel = NoSel
    /\ geo \in { [NoGeo EXCEPT !.self = a, !.other = b] :
                   a \in Boxes, b \in Boxes }

\* self.intersects(other), self.intersection_area(other) and
\* self.visibility_fraction(other), and the first two the other way round
call_bounding_box ==
    /\ ~geo.called
    /\ geo' = [geo EXCEPT
                 !.intersects = <<intersects(geo.self, geo.other),
                                  intersects(geo.other, geo.self)>>,
                 !.intersection_area =
                     <<intersection_area(geo.self, geo.other),
                       intersection_area(geo.other, geo.self)>>,
                 !.visibility_fraction =
                     visibility_fraction(geo.self, geo.other),
                 !.called = TRUE]
    /\ UNCHANGED <<ctx, connection_status, rlock, slock, debounce_task, pc,
                   locals, cancel_req, ev, succeeded, driven_fen, board_position, observers,
                   throwing, doc, sel, chessnut>>

\* -------------------------------------------------------------------- Next
Next ==
    \/ \E path \in Paths, m \in CandidateMaps : on_pdf_opened(path, m)
    \/ on_pdf_closed
    \/ \E i \in Pages, v \in Viewports, q \in Detections :
          on_viewport_changed(i, v, q)
    \/ \E c \in Cands : select_diagram(c)
    \/ \E b \in BOOLEAN : set_auto_sync(b)
    \/ clear_cache
    \/ connect_board
    \/ disconnect_board
    \/ \E t \in RecTasks, c \in Cands \cup {NoCand}, g \in BOOLEAN :
          RecognizeCall(t, c, g)
    \/ \E t \in RecTasks : RecognizeResume(t)
    \/ \E t \in RecTasks, r \in BackendResults \cup {BackendRaise} :
          BackendReturn(t, r)
    \/ \E t \in SendTasks, f \in Fens \cup {NoneFen}, r \in BOOLEAN :
          SendCall(t, f, r)
    \/ \E t \in SendTasks : SendResume(t)
    \/ \E t \in SendTasks \cup DebTasks, o \in DriverOutcomes : DriverReturn(t, o)
    \/ \E d \in DebTasks : DebounceFire(d)
    \/ \E d \in DebTasks : DebounceResumeRecognize(d)
    \/ \E d \in DebTasks : DebounceResumeSend(d)
    \/ \E d \in DebTasks : CancelDeliver(d)
    \/ emergency_stop
    \/ \E r \in BOOLEAN : StopReturn(r)
    \/ \E o \in ObserverIds : add_observer(o)
    \/ \E o \in ObserverIds : remove_observer(o)
    \/ \E o \in ObserverIds : observer_fails(o)
    \/ call_select_topmost_visible
    \/ call_bounding_box
    \/ chessnut_connect
    \/ chessnut_disconnect
    \/ on_disconnect
    \/ reconnect_loop_attempt
    \/ reconnect_loop_cancelled
    \/ reconnect_loop_connected

Spec == Init /\ [][Next]_vars

TypeOK ==
    /\ state \in WorkflowState
    /\ active_candidate \in Cands \cup {NoCand}
    /\ connection_status \in ConnectionStatus
    /\ debounce_task \in DebTasks \cup {NoTask}
    /\ \A i \in 1..Len(observers) : observers[i] \in ObserverIds
    /\ throwing \subseteq ObserverIds

\* ------------------------------------------------- restricted environments
\* The product of every client with every input is out of reach of an
\* exhaustive search, so the properties are checked under environments that
\* issue a subset of the calls and inputs; each keeps every operation that
\* writes the variables its properties read.

NoRecognitionRunning == \A u \in RecTasks : pc[u] = "idle"
NoSendRunning == \A u \in SendTasks : pc[u] = "idle"
NoCancelPending == \A d \in DebTasks : ~cancel_req[d]

\* Recognition and its cache: concurrent explicit calls with and without a
\* candidate and an image_getter, every backend outcome, cache resets
\* and manual selection.
NextRecognition ==
    \/ on_pdf_closed
    \/ clear_cache
    \/ \E c \in Cands : select_diagram(c)
    \/ \E t \in RecTasks, c \in Cands \cup {NoCand}, g \in BOOLEAN :
          RecognizeCall(t, c, g)
    \/ \E t \in RecTasks : RecognizeResume(t)
    \/ \E t \in RecTasks, r \in {<<FenAw, 85>>, <<FenB, 84>>, BackendRaise} :
          BackendReturn(t, r)

SpecRecognition == Init /\ [][NextRecognition]_vars

\* Manual sends, one at a time: every FEN argument and confirmation flag, every driver
\* outcome, board connection changes, document close, one recognition at a
\* time to fill recognized_position, and the emergency stop.
NextSend ==
    \/ connect_board
    \/ disconnect_board
    \/ on_pdf_closed
    \/ \E t \in RecTasks : NoRecognitionRunning /\ RecognizeCall(t, CandA, TRUE)
    \/ \E t \in RecTasks, r \in BackendResults : BackendReturn(t, r)
    \/ \E t \in SendTasks, f \in Fens \cup {NoneFen}, r \in BOOLEAN :
          NoSendRunning /\ SendCall(t, f, r)
    \/ \E t \in SendTasks, o \in DriverOutcomes : DriverReturn(t, o)
    \/ emergency_stop
    \/ \E r \in BOOLEAN : StopReturn(r)

SpecSend == Init /\ [][NextSend]_vars

\* Auto-sync: viewport changes that arm and re-arm the debounce, the
\* debounce tasks with their cancellation, one explicit recognition at a
\* time with a high-confidence result, and manual sends, one at a time, of
\* another position on a board that is connected once.
NextAuto ==
    \/ connection_status # "CONNECTED" /\ connect_board
    \/ set_auto_sync(TRUE)
    \/ \E v \in Viewports : on_viewport_changed(0, v, PageCandidates)
    \/ \E t \in RecTasks : NoRecognitionRunning /\ RecognizeCall(t, CandA, TRUE)
    \/ \E t \in RecTasks : BackendReturn(t, <<FenAw, 85>>)
    \/ \E t \in SendTasks : NoSendRunning /\ SendCall(t, FenB, TRUE)
    \/ \E t \in SendTasks : SendResume(t)
    \/ \E t \in SendTasks \cup DebTasks, o \in {"SUCCESS", "FAILED"} :
          DriverReturn(t, o)
    \/ \E d \in DebTasks : DebounceFire(d)
    \/ \E d \in DebTasks : DebounceResumeRecognize(d)
    \/ \E d \in DebTasks : DebounceResumeSend(d)
    \/ \E d \in DebTasks : CancelDeliver(d)

SpecAuto == Init /\ [][NextAuto]_vars

\* The same environment with a Board Driver that resolves every
\* set_position call and an event loop that delivers every cancellation.
SpecAutoFair ==
    /\ SpecAuto
    /\ WF_vars(\E t \in SendTasks \cup DebTasks, o \in {"SUCCESS", "FAILED"} :
                  DriverReturn(t, o))
    /\ WF_vars(\E d \in DebTasks : CancelDeliver(d))
    /\ WF_vars(\E d \in DebTasks : DebounceFire(d))
    /\ WF_vars(\E d \in DebTasks : DebounceResumeRecognize(d))
    /\ WF_vars(\E d \in DebTasks : DebounceResumeSend(d))
    /\ WF_vars(\E t \in SendTasks : SendResume(t))
    /\ WF_vars(\E t \in RecTasks : BackendReturn(t, <<FenAw, 85>>))

\* Selection: observers that register one after the other, documents that
\* are closed, auto-sync switched both ways, every viewport and every manual
\* selection, the debounce tasks with their cancellation, and one explicit
\* recognition at a time that succeeds or fails.  A cancelled debounce task
\* gets its CancelledError before the next viewport event is handled.
NextSelection ==
    \/ \E o \in ObserverIds : (o = "o1" \/ observers # <<>>) /\ add_observer(o)
    \/ on_pdf_closed
    \/ \E b \in BOOLEAN : set_auto_sync(b)
    \/ \E v \in Viewports : NoCancelPending /\ on_viewport_changed(0, v, PageCandidates)
    \/ \E c \in Cands : select_diagram(c)
    \/ \E t \in RecTasks : NoRecognitionRunning /\ RecognizeCall(t, CandA, TRUE)
    \/ \E t \in RecTasks, r \in {<<FenAw, 85>>, BackendRaise} :
          BackendReturn(t, r)
    \/ \E d \in DebTasks : DebounceFire(d)
    \/ \E d \in DebTasks : DebounceResumeRecognize(d)
    \/ \E d \in DebTasks : CancelDeliver(d)

SpecSelection == Init /\ [][NextSelection]_vars

\* Notifications: observers that register one after the other and whose
\* callbacks may start to raise, a manual selection, board connection
\* changes, one recognition at a time that succeeds or fails, and one send
\* at a time with every driver outcome.
NextObservers ==
    \/ \E o \in ObserverIds : (o = "o1" \/ observers # <<>>) /\ add_observer(o)
    \/ \E o \in ObserverIds :
          (\E i \in 1..Len(observers) : observers[i] = o) /\ observer_fails(o)
    \/ select_diagram(CandA)
    \/ connect_board
    \/ disconnect_board
    \/ \E t \in RecTasks : NoRecognitionRunning /\ RecognizeCall(t, CandA, TRUE)
    \/ \E t \in RecTasks, r \in {<<FenAw, 85>>, BackendRaise} :
          BackendReturn(t, r)
    \/ \E t \in SendTasks, f \in {FenAw, FenB} :
          NoSendRunning /\ SendCall(t, f, TRUE)
    \/ \E t \in SendTasks, o \in DriverOutcomes : DriverReturn(t, o)

SpecObservers == Init /\ [][NextObservers]_vars

\* The cache through every operation of the Manager, auto-sync off:
\* documents that are closed, explicit clearing, manual selection,
\* concurrent recognitions of every diagram that succeed with differing
\* results or fail, and, between recognitions, viewport changes, the
\* connection of the board, sends of the recognized position and the
\* emergency stop.
NextCache ==
    \/ on_pdf_closed
    \/ clear_cache
    \/ NoRecognitionRunning /\ connection_status # "CONNECTED" /\ connect_board
    \/ \E c \in Cands : select_diagram(c)
    \/ \E v \in Viewports :
          NoRecognitionRunning /\ on_viewport_changed(0, v, PageCandidates)
    \/ \E t \in RecTasks, c \in Cands : RecognizeCall(t, c, TRUE)
    \/ \E t \in RecTasks : RecognizeResume(t)
    \/ \E t \in RecTasks, r \in {<<FenAw, 85>>, <<FenB, 84>>, BackendRaise} :
          BackendReturn(t, r)
    \/ \E t \in SendTasks :
          NoRecognitionRunning /\ NoSendRunning /\ SendCall(t, NoneFen, FALSE)
    \/ \E t \in SendTasks : DriverReturn(t, "SUCCESS")
    \/ NoRecognitionRunning /\ emergency_stop
    \/ \E r \in BOOLEAN : StopReturn(r)

SpecCache == Init /\ [][NextCache]_vars

\* Re-detection: every viewport with the page's candidates as first
\* detected or as detected again, auto-sync switched both ways, observers
\* that register one after the other, and the debounce tasks with their
\* cancellation.
NextRedetect ==
    \/ \E o \in ObserverIds : (o = "o1" \/ observers # <<>>) /\ add_observer(o)
    \/ \E b \in BOOLEAN : set_auto_sync(b)
    \/ \E v \in Viewports, q \in Detections :
          NoCancelPending /\ on_viewport_changed(0, v, q)
    \/ \E d \in DebTasks : DebounceFire(d)
    \/ \E d \in DebTasks : CancelDeliver(d)

SpecRedetect == Init /\ [][NextRedetect]_vars

\* The registry: observers that register and unregister in any order, and
\* the operations that notify them at once: manual selection, viewport
\* changes with auto-sync off and board connection changes; callbacks of
\* registered observers may start to raise.
NextRegistry ==
    \/ \E o \in ObserverIds : add_observer(o)
    \/ \E o \in ObserverIds : remove_observer(o)
    \/ \E c \in Cands : select_diagram(c)
    \/ \E v \in Viewports : on_viewport_changed(0, v, PageCandidates)
    \/ connect_board
    \/ disconnect_board
    \/ \E o \in ObserverIds : Registered(o) /\ observer_fails(o)

SpecRegistry == Init /\ [][NextRegistry]_vars

\* Documents: every document opened and closed in every workflow state,
\* viewports on both pages with auto-sync off, manual selection, one
\* recognition at a time that succeeds or fails, and one send at a time on
\* a connected board that succeeds or fails.
NextDocuments ==
    \/ \E path \in Paths, m \in CandidateMaps : on_pdf_opened(path, m)
    \/ on_pdf_closed
    \/ \E i \in Pages, v \in Viewports :
          on_viewport_changed(i, v, PageCandidates)
    \/ select_diagram(CandA)
    \/ connect_board
    \/ \E t \in RecTasks : NoRecognitionRunning /\ RecognizeCall(t, CandA, TRUE)
    \/ \E t \in RecTasks, r \in {<<FenAw, 85>>, BackendRaise} :
          BackendReturn(t, r)
    \/ \E t \in SendTasks :
          NoRecognitionRunning /\ NoSendRunning /\ SendCall(t, FenB, TRUE)
    \/ \E t \in SendTasks, o \in {"SUCCESS", "FAILED"} : DriverReturn(t, o)

SpecDocuments == Init /\ [][NextDocuments]_vars

\* the thresholds handed to set_min_confidence, in hundredths: below and
\* above the confidences the backend reports, and outside [0, 1]
Confidences == {-10, 50, 90, 150}

\* Confidence: thresholds that are set, a connected board, auto-sync on,
\* viewport changes and debounce tasks that fire between the other
\* operations, one recognition at a time with a confidence of 0.85 or 0.84,
\* and unconfirmed sends of the recognized position, one at a time.
NextConfidence ==
    \/ connect_board
    \/ set_auto_sync(TRUE)
    \/ \E c \in Confidences : set_min_confidence(c)
    \/ \E v \in Viewports :
          /\ NoCancelPending /\ NoRecognitionRunning /\ NoSendRunning
          /\ on_viewport_changed(0, v, PageCandidates)
    \/ \E t \in RecTasks : NoRecognitionRunning /\ RecognizeCall(t, CandA, TRUE)
    \/ \E t \in RecTasks, r \in {<<FenAw, 85>>, <<FenB, 84>>} :
          BackendReturn(t, r)
    \/ \E t \in SendTasks :
          NoRecognitionRunning /\ NoSendRunning /\ SendCall(t, NoneFen, FALSE)
    \/ \E t \in SendTasks \cup DebTasks : DriverReturn(t, "SUCCESS")
    \/ \E d \in DebTasks :
          NoRecognitionRunning /\ NoSendRunning /\ DebounceFire(d)
    \/ \E d \in DebTasks : CancelDeliver(d)

SpecConfidence == Init /\ [][NextConfidence]_vars

\* The Chessnut board: explicit connects and disconnects, connections that
\* are lost, the reconnect loop, and meanwhile a manual selection and one
\* recognition at a time.
NextChessnut ==
    \/ chessnut_connect
    \/ chessnut_disconnect
    \/ on_disconnect
    \/ reconnect_loop_attempt
    \/ reconnect_loop_cancelled
    \/ select_diagram(CandA)
    \/ \E t \in RecTasks : NoRecognitionRunning /\ RecognizeCall(t, CandA, TRUE)
    \/ \E t \in RecTasks : BackendReturn(t, <<FenAw, 85>>)

SpecChessnut == Init /\ [][NextChessnut]_vars

\* The same with an event loop that runs the reconnect task whenever it can
\* go on: its sleep elapses, its awaits resolve and a CancelledError is
\* delivered.
SpecChessnutFair ==
    /\ SpecChessnut
    /\ WF_vars(reconnect_loop_attempt)
    /\ WF_vars(reconnect_loop_cancelled)
    /\ WF_vars(reconnect_loop_connected)

\* select_topmost_visible on its own: one call for every input drawn.
NextSelector == call_select_topmost_visible

SpecSelector == InitSelector /\ [][NextSelector]_vars

\* the BoundingBox methods on their own: one call for every pair of boxes
NextGeometry == call_bounding_box

SpecGeometry == InitGeometry /\ [][NextGeometry]_vars

\* ------------------------------------------------------------ properties

RecognizeSectionOutcomes == {"hit", "none:nogetter", "none:error", "pending"}

\* C1: once recognize_diagram has succeeded for a candidate id, and neither
\* clear_cache nor on_pdf_closed has run since, every later call for that id
\* that reaches the cache lookup returns the cached RecognizedPosition and
\* does not invoke the recognition backend.
C1_CachedRecognitionIsReused ==
    [][(/\ ev'.op = "recognize_diagram"
        /\ ev'.rec \in RecognizeSectionOutcomes
        /\ ev'.cand \in succeeded)
       => (/\ ev'.rec = "hit"
           /\ ev'.called # "backend"
           /\ ev'.pos = recognition_cache[ev'.cand]
           /\ recognized_position' = recognition_cache[ev'.cand]
           /\ recognition_cache' = recognition_cache
           /\ \A t \in RecTasks : pc'[t] # "in_backend" \/ pc[t] = "in_backend")]_vars

C1_Witness ==
    /\ ev.op = "recognize_diagram"
    /\ ev.rec = "hit"
    /\ ev.cand \in succeeded
    /\ ev.pos = recognition_cache[ev.cand]

\* C3: at most one recognition is inside the locked section at any time: a
\* second recognize_diagram call waits for the first, and the backend is
\* never in flight for a candidate whose result is already cached.
C3_RecognitionSerialized ==
    /\ Cardinality({t \in Tasks : pc[t] = "in_backend"}) <= 1
    /\ rlock.locked <=> (\E t \in Tasks : pc[t] = "in_backend")
    /\ \A t \in Tasks : pc[t] = "in_backend"
          => recognition_cache[t_cand[t].candidate_id] = NoPos

C3_Witness ==
    \E t, u \in RecTasks :
       /\ pc[t] = "in_backend"
       /\ pc[u] = "wait_rlock"
       /\ t_cand[t] = t_cand[u]
       /\ rlock.waiters = <<u>>

SendSectionOutcomes ==
    {"no_position", "no_fen", "already_set", "not_connected",
     "low_confidence", "pending"}

\* the FEN a send_to_board(fenArg, ...) call targets
TargetFen(fenArg, rp) ==
    IF fenArg # NoneFen THEN fenArg
    ELSE IF rp # NoPos THEN rp.fen ELSE NoneFen

SendInFlight == \E t \in Tasks : pc[t] = "in_driver"

\* C2: after a send whose driver call returned SUCCESS, BoardDriver.
\* set_position is never called again for a FEN with the same piece
\* placement as the FEN of that last successful send (fields after the
\* placement are ignored).
C2_NoRedriveOfSentPlacement ==
    \A t \in Tasks :
       (pc[t] = "in_driver" /\ driven_fen # NoneFen)
          => ~positions_equal(t_fen[t], driven_fen)

\* C5: emergency_stop never waits for the send lock: whenever a send is
\* inside the driver call, and in every workflow state, a call of
\* emergency_stop can run and it calls BoardDriver.stop_motion at once.
C5_EmergencyStopBypassesSendLock ==
    /\ (pc[EStop] = "idle") => ENABLED emergency_stop
    /\ (pc[EStop] = "in_stop" /\ ev.op = "emergency_stop")
          => ev.called = "stop_motion"

C5_Witness ==
    /\ pc[EStop] = "in_stop"
    /\ ev.called = "stop_motion"
    /\ SendInFlight
    /\ slock.locked
    /\ state = "SENDING_TO_BOARD"

\* C6: an exception thrown by BoardDriver.stop_motion is caught inside
\* emergency_stop and never reaches its caller.
C6_StopExceptionContained ==
    ev.op = "emergency_stop" => ev.res # "raised"

C4_BoardWritesSerialized ==
    /\ Cardinality({t \in Tasks : pc[t] = "in_driver"}) <= 1
    /\ slock.locked <=> SendInFlight
    /\ \A i \in 1..Len(slock.waiters) : pc[slock.waiters[i]] = "wait_slock"

C4_Witness ==
    \E t \in SendTasks, d \in DebTasks :
       \/ pc[t] = "in_driver" /\ pc[d] = "wait_slock"
       \/ pc[d] = "in_driver" /\ pc[t] = "wait_slock"

\* the debounce tasks that are scheduled, not cancelled and not yet fired
PendingDebounce == {d \in DebTasks : pc[d] = "sleeping" /\ ~cancel_req[d]}

\* task d leaves its sleep and starts recognize_diagram
DebounceExecutes(d) ==
    pc[d] = "sleeping" /\ pc'[d] # "sleeping" /\ ev'.op = "debounce"

C9_SupersededDebounceNeverRuns ==
    [][\A d \in DebTasks :
          (pc[d] = "sleeping" /\ debounce_task # d)
             => /\ pc'[d] \in {"sleeping", "idle"}
                /\ pc'[d] = "idle"
                      => (ev'.op = "debounce_cancelled" /\ ev'.res = "sleep")
                /\ ~DebounceExecutes(d)]_vars

C9_Witness ==
    /\ ev.op = "debounce_cancelled"
    /\ ev.res = "sleep"
    /\ debounce_task # NoTask
    /\ pc[debounce_task] = "sleeping"

\* C10: a debounce task that is past its sleep (queued on a lock or inside
\* the driver call of its send) is never cancelled by a later viewport
\* event: no cancellation is requested of it and none ends it.
C10_StartedDebounceNotCancelled ==
    /\ \A d \in DebTasks :
          pc[d] \in {"wait_rlock", "wait_slock", "in_driver"}
             => ~cancel_req[d]
    /\ ev.op = "debounce_cancelled" => ev.res = "sleep"
    /\ last_send_result # "CANCELLED"

\* C11: on_pdf_closed, called in any workflow state (ERROR included), leaves
\* state IDLE with an empty recognition_cache and with neither an active
\* candidate nor a recognized position.
C11_CloseResetsContext ==
    [][on_pdf_closed
       => /\ state' = "IDLE"
          /\ \A i \in CandIds : recognition_cache'[i] = NoPos
          /\ active_candidate' = NoCand
          /\ recognized_position' = NoPos]_vars

\* a close has just run from a loaded Context while recognitions were still
\* in flight or the workflow had failed
C11_Witness ==
    /\ state = "IDLE"
    /\ ev = Closed
    /\ active_candidate = NoCand
    /\ recognized_position = NoPos
    /\ \A i \in CandIds : recognition_cache[i] = NoPos
    /\ \E t \in RecTasks : pc[t] = "in_backend"

\* the Selector result of on_viewport_changed for each viewport
SelectorResults ==
    [v \in Viewports |->
        select_topmost_visible(PageCandidates, v, min_visibility_fraction)]

SelectorResult(v) == SelectorResults[v]

\* C12: when the Selector result of on_viewport_changed equals the current
\* active_candidate (none = none included), the call leaves the workflow
\* state, active_candidate and its timestamp as they were, notifies no
\* observer, and neither cancels nor schedules a debounce task, in every
\* workflow state.
C12_UnchangedSelectionIsIdempotent ==
    [][\A v \in Viewports :
          (SelectorResult(v) = active_candidate /\ on_viewport_changed(0, v, PageCandidates))
          => /\ state' = state
             /\ active_candidate' = active_candidate
             /\ ev'.called # "now"
             /\ ev'.notes = <<>>
             /\ debounce_task' = debounce_task
             /\ pc' = pc
             /\ cancel_req' = cancel_req
             /\ t_cand' = t_cand]_vars

\* a viewport that selects the already active diagram is possible while
\* observers are registered, auto-sync is on and a debounce is pending
C12_Witness ==
    /\ observers # <<>>
    /\ auto_sync_enabled
    /\ active_candidate # NoCand
    /\ state = "ERROR"
    /\ ev = Quiet
    /\ \E d \in DebTasks : pc[d] = "sleeping" /\ ~cancel_req[d]
    /\ \E v \in Viewports :
          /\ SelectorResult(v) = active_candidate
          /\ ENABLED on_viewport_changed(0, v, PageCandidates)

\* one active-diagram-changed callback per registered observer, in
\* registration order
OneNoteEach(kind, arg) ==
    [i \in 1..Len(observers) |-> [kind |-> kind, arg |-> arg,
                                  to |-> observers[i]]]

\* a debounce task for candidate c has been created by the step and any
\* task that was pending before it has been asked to cancel
DebounceArmed(c) ==
    /\ debounce_task' \in DebTasks
    /\ pc[debounce_task'] = "idle"
    /\ pc'[debounce_task'] = "sleeping"
    /\ t_cand'[debounce_task'] = c
    /\ ~cancel_req'[debounce_task']
    /\ (debounce_task # NoTask /\ pc[debounce_task] # "idle")
          => cancel_req'[debounce_task]

DebounceUntouched ==
    /\ debounce_task' = debounce_task
    /\ pc' = pc
    /\ cancel_req' = cancel_req
    /\ t_cand' = t_cand

\* C13: when the Selector result of on_viewport_changed differs from
\* active_candidate, active_candidate becomes the result, every observer
\* receives exactly one active-diagram-changed notification, the state
\* becomes DIAGRAM_SELECTED for a candidate and PDF_LOADED for none, and the
\* debounce is (re)armed only if the result is a candidate and auto-sync is
\* enabled.
C13_ChangedSelectionIsApplied ==
    [][\A v \in Viewports :
          (SelectorResult(v) # active_candidate /\ on_viewport_changed(0, v, PageCandidates))
          => /\ active_candidate' = SelectorResult(v)
             /\ ev'.called = "now"
             /\ ev'.notes = OneNoteEach("active_diagram",
                                        SelectorResult(v).candidate_id)
             /\ state' = IF SelectorResult(v) # NoCand
                         THEN "DIAGRAM_SELECTED" ELSE "PDF_LOADED"
             /\ IF SelectorResult(v) # NoCand /\ auto_sync_enabled
                THEN DebounceArmed(SelectorResult(v))
                ELSE DebounceUntouched]_vars

\* a viewport change has re-armed the debounce with two observers notified
C13_Witness ==
    /\ ev.op = "on_viewport_changed"
    /\ Len(ev.notes) = 2
    /\ state = "DIAGRAM_SELECTED"
    /\ auto_sync_enabled
    /\ \E d, e \in DebTasks :
          /\ d # e
          /\ debounce_task = e
          /\ pc[e] = "sleeping"
          /\ t_cand[e] = active_candidate
          /\ pc[d] # "idle"
          /\ cancel_req[d]

\* C14: select_diagram(candidate) sets active_candidate to the candidate,
\* notifies active-diagram-changed and moves to DIAGRAM_SELECTED from every
\* state, and neither creates nor re-arms a debounce task, also when
\* auto-sync is enabled.
C14_ManualSelectionNeverSchedules ==
    [][\A c \in Cands :
          select_diagram(c)
          => /\ active_candidate' = c
             /\ ev'.called = "now"
             /\ ev'.notes = OneNoteEach("active_diagram", c.candidate_id)
             /\ state' = "DIAGRAM_SELECTED"
             /\ DebounceUntouched
             /\ rlock' = rlock
             /\ slock' = slock]_vars

\* a manual selection made with auto-sync on, observers registered and no
\* debounce task in existence
C14_Witness ==
    /\ ev.op = "select_diagram"
    /\ Len(ev.notes) = 2
    /\ auto_sync_enabled
    /\ state = "DIAGRAM_SELECTED"
    /\ active_candidate = CandB
    /\ \A d \in DebTasks : pc[d] = "idle"

\* the part of a box that lies inside a viewport, as an area
VisibleArea(b, v) ==
    LET w == Min2(b.x1, v.x1) - Max2(b.x0, v.x0)
        h == Min2(b.y1, v.y1) - Max2(b.y0, v.y0)
    IN  IF w <= 0 \/ h <= 0 THEN 0 ELSE w * h

\* visibility_fraction(viewport) >= threshold, as the claim words it: the
\* visible part of the box over the whole box, 0 for a box without area
Qualifies(c, v, tenths) ==
    LET whole == (c.bbox.x1 - c.bbox.x0) * (c.bbox.y1 - c.bbox.y0)
    IN  IF whole = 0
        THEN tenths <= 0
        ELSE 10 * VisibleArea(c.bbox, v) >= tenths * whole

Qualifiers ==
    { i \in 1..Len(sel.candidates) :
        Qualifies(sel.candidates[i], sel.viewport, sel.threshold) }

\* C15: select_topmost_visible returns none exactly when no candidate has
\* visibility_fraction(viewport) >= min_visibility_fraction, and otherwise a
\* member of the input whose fraction is at least the threshold; a fraction
\* equal to the threshold qualifies, and a candidate below it is never
\* returned, however high on the page it lies.
C15_SelectorFilter ==
    sel.called =>
        /\ (sel.result = NoCand) <=> (Qualifiers = {})
        /\ sel.result # NoCand
              => \E i \in Qualifiers : sel.candidates[i] = sel.result

\* the result sits exactly at the threshold while a candidate higher on the
\* page than every qualifying one is visible below the threshold
C15_Witness ==
    /\ sel.called
    /\ sel.result # NoCand
    /\ sel.threshold > 0
    /\ 10 * VisibleArea(sel.result.bbox, sel.viewport)
          = sel.threshold * area(sel.result.bbox)
    /\ \E j \in 1..Len(sel.candidates) :
          /\ j \notin Qualifiers
          /\ VisibleArea(sel.candidates[j].bbox, sel.viewport) > 0
          /\ \A i \in Qualifiers :
                sel.candidates[j].bbox.y0 < sel.candidates[i].bbox.y0

\* the lexicographic order of (bbox.y0, bbox.x0)
KeyBefore(c, d) ==
    c.bbox.y0 < d.bbox.y0 \/ (c.bbox.y0 = d.bbox.y0 /\ c.bbox.x0 < d.bbox.x0)

\* the lists with the same members in another order
Reorderings(q) ==
    { r \in [1..Len(q) -> {q[i] : i \in 1..Len(q)}] :
        \A i \in 1..Len(q) : \E j \in 1..Len(q) : r[j] = q[i] }

\* the lists with the same candidates on other pages
Repaged(q) ==
    { [i \in 1..Len(q) |-> [q[i] EXCEPT !.page_number = pages[i]]] :
        pages \in [1..Len(q) -> 0..2] }

DistinctKeys ==
    \A i, j \in Qualifiers :
        i # j => \/ KeyBefore(sel.candidates[i], sel.candidates[j])
                 \/ KeyBefore(sel.candidates[j], sel.candidates[i])

\* C16: among the candidates that pass the visibility filter the result has
\* a lexicographically minimal (bbox.y0, bbox.x0); when those keys are
\* pairwise distinct every permutation of the input gives the same result;
\* and the result does not depend on any candidate's page_number.
C16_SelectorOrdering ==
    sel.called =>
        /\ \A i \in Qualifiers : ~KeyBefore(sel.candidates[i], sel.result)
        /\ DistinctKeys
              => \A r \in Reorderings(sel.candidates) :
                    select_topmost_visible(r, sel.viewport, sel.threshold)
                       = sel.result
        /\ \A r \in Repaged(sel.candidates) :
              select_topmost_visible(r, sel.viewport,
                                     sel.threshold).candidate_id
                 = sel.result.candidate_id

\* the result was picked by the x0 tie-break from a list that names the
\* candidate with the larger x0 first, and a lower candidate qualifies too
C16_Witness ==
    /\ sel.called
    /\ sel.result # NoCand
    /\ DistinctKeys
    /\ \E i, j, k \in Qualifiers :
          /\ i < j
          /\ sel.candidates[j] = sel.result
          /\ sel.candidates[i].bbox.y0 = sel.result.bbox.y0
          /\ sel.candidates[i].bbox.x0 > sel.result.bbox.x0
          /\ sel.candidates[i].page_number # sel.result.page_number
          /\ sel.candidates[k].bbox.y0 > sel.result.bbox.y0

\* the on_error callbacks of one failure, one per registered observer
ErrorNotes(prefix, e) ==
    [i \in 1..Len(observers) |-> [kind |-> "error", arg |-> <<prefix, e>>,
                                  to |-> observers[i]]]

\* C17: an exception of the Recognition Backend or of the image fetch makes
\* recognize_diagram return none, notify on_error and set state ERROR; an
\* exception of BoardDriver.set_position makes send_to_board return a FAILED
\* SetPositionResult with the exception's message, notify on_error and set
\* state ERROR; either way the lock is released.
C17_ExceptionsBecomeResults ==
    [][/\ (\E t \in RecTasks : BackendReturn(t, BackendRaise))
          => /\ ev'.rec = "none:error"
             /\ ev'.pos = NoPos
             /\ ev'.notes = ErrorNotes("Recognition failed: ", "backend error")
             /\ state' = "ERROR"
             /\ ~rlock'.locked
       /\ ev'.called = "image_getter"
          => /\ ev'.rec = "none:error"
             /\ ev'.pos = NoPos
             /\ ev'.notes = ErrorNotes("Recognition failed: ", "image error")
             /\ state' = "ERROR"
             /\ ~rlock'.locked
       /\ (\E t \in SendTasks : DriverReturn(t, "raise"))
          => /\ ev'.res = "FAILED"
             /\ ev'.msg = DriverMessage("raise")
             /\ ev'.notes = ErrorNotes("Failed to send position: ",
                                       DriverMessage("raise"))
             /\ state' = "ERROR"
             /\ ~slock'.locked]_vars

\* set_position has raised with two observers listening: both were told,
\* the state is ERROR, both locks are free and every task has returned
C17_Witness ==
    /\ ev.drv = "raise"
    /\ ev.res = "FAILED"
    /\ Len(ev.notes) = 2
    /\ state = "ERROR"
    /\ ~slock.locked
    /\ ~rlock.locked
    /\ \A t \in Tasks : pc[t] = "idle"

\* the notifications a step has made, without their recipients
Notifications(n) == {<<n[i].kind, n[i].arg>> : i \in 1..Len(n)}

\* the recipients of one notification, in call order
Recipients(n, k) ==
    LET got == SelectSeq(n, LAMBDA x : <<x.kind, x.arg>> = k)
    IN  [i \in 1..Len(got) |-> got[i].to]

\* what the operation does when no callback raises, by kind of notification
NormalOutcome(k) ==
    CASE k[1] = "active_diagram" ->
            /\ active_candidate'.candidate_id = k[2]
            /\ state' = "DIAGRAM_SELECTED"
      [] k[1] = "position_recognized" ->
            /\ recognized_position'.source_candidate_id = k[2]
            /\ recognition_cache'[k[2]] = recognized_position'
            /\ ev'.pos = recognized_position'
            /\ state' = "POSITION_RECOGNIZED"
      [] k[1] = "position_sent" ->
            /\ ev'.res = k[2]
            /\ last_send_result' = k[2]
            /\ state' = IF k[2] = "SUCCESS" THEN "POSITION_SENT" ELSE "ERROR"
            /\ k[2] = "SUCCESS" => last_sent_fen' # last_sent_fen
      [] k[1] = "connection_status" ->
            connection_status' = IF k[2] = "DISCONNECTED"
                                 THEN "DISCONNECTED" ELSE "CONNECTED"
      [] k[1] = "error" ->
            /\ state' = "ERROR"
            /\ ev'.rec = "none:error" \/ ev'.res = "FAILED"

\* C18: for each of the five notification kinds, a callback that raises
\* keeps neither the observers registered after it from being called nor
\* the operation from returning, setting the workflow state and updating
\* the Context as it does when no callback raises.
C18_ObserverIsolation ==
    [][\A k \in Notifications(ev'.notes) :
          /\ Recipients(ev'.notes, k) = observers
          /\ NormalOutcome(k)]_vars

\* a recognition result was delivered to two observers, the first of which
\* raises
C18_Witness ==
    /\ Len(ev.notes) = 2
    /\ ev.notes[1].kind = "position_recognized"
    /\ ev.notes[1].to \in throwing
    /\ ev.notes[2].to \notin throwing
    /\ state = "POSITION_RECOGNIZED"

\* C19: ERROR is not sticky: from state ERROR, a recognize_diagram call that
\* returns a position leaves the workflow in POSITION_RECOGNIZED and a
\* send_to_board call that returns SUCCESS leaves it in POSITION_SENT, never
\* in ERROR.
C19_ErrorIsNotSticky ==
    [][/\ (ev'.op = "recognize_diagram" /\ ev'.rec \in {"hit", "recognized"})
          => state' = "POSITION_RECOGNIZED"
       /\ (ev'.op = "send_to_board" /\ ev'.res \in {"already_set", "SUCCESS"})
          => /\ state' # "ERROR"
             /\ state = "ERROR" => state' = "POSITION_SENT"]_vars

\* C20: when send_to_board has called BoardDriver.set_position(fen), a
\* SUCCESS result sets last_sent_fen = fen and state POSITION_SENT; a FAILED,
\* IN_PROGRESS or CANCELLED result or an exception sets state ERROR and
\* leaves last_sent_fen as it was; the caller gets the driver's status and
\* message, or FAILED with the exception's message.
C20_SendOutcomeMapping ==
    [][\A t \in SendTasks, o \in DriverOutcomes :
          DriverReturn(t, o)
          => /\ IF o = "SUCCESS"
                THEN /\ last_sent_fen' = t_fen[t]
                     /\ state' = "POSITION_SENT"
                ELSE /\ last_sent_fen' = last_sent_fen
                     /\ state' = "ERROR"
             /\ ev'.res = IF o = "raise" THEN "FAILED" ELSE o
             /\ ev'.msg = DriverMessage(o)]_vars

\* the driver answered IN_PROGRESS to a send made after an earlier
\* successful one: the state is ERROR and last_sent_fen is the earlier FEN
C20_Witness ==
    /\ ev.op = "send_to_board"
    /\ ev.drv = "IN_PROGRESS"
    /\ ev.res = "IN_PROGRESS"
    /\ ev.msg = DriverMessage("IN_PROGRESS")
    /\ state = "ERROR"
    /\ last_sent_fen # NoneFen
    /\ last_send_result = "IN_PROGRESS"

\* the driver call of task t has returned to send_to_board, which has set
\* the state
SendConcluded(t) ==
    /\ ev.task = t
    /\ ev.drv # "-"
    /\ state \in {"POSITION_SENT", "ERROR"}

\* C21: SENDING_TO_BOARD is transient: when the Board Driver resolves every
\* set_position call, each send that has set the state SENDING_TO_BOARD goes
\* on to set POSITION_SENT or ERROR, under every interleaving with viewport
\* changes, debounce re-arming and other operations.
C21_SendingIsTransient ==
    \A t \in SendTasks \cup DebTasks :
        (pc[t] = "in_driver") ~> SendConcluded(t)

\* the FAILED results send_to_board returns before it reaches the driver
EarlyFailures == {"no_position", "no_fen", "not_connected", "low_confidence"}

\* a send_to_board(fenArg, req) call made now fails before the driver: no
\* FEN to send, or a FEN that is not the one already set while the board is
\* not connected or the recognized position needs a confirmation
FailsEarly(fenArg, req) ==
    LET target == TargetFen(fenArg, recognized_position)
    IN  \/ target = NoneFen
        \/ /\ ~(last_sent_fen # NoneFen /\ positions_equal(target, last_sent_fen))
           /\ \/ connection_status # "CONNECTED"
              \/ /\ ~req
                 /\ recognized_position # NoPos
                 /\ recognized_position.overall_confidence < HighConfidence

\* C22: a send_to_board call that returns FAILED before reaching the driver
\* (no FEN argument and no recognized_position, no FEN in the recognized
\* position, board not CONNECTED, low confidence without confirmation) does
\* not call BoardDriver.set_position and leaves the workflow state,
\* last_sent_fen and last_send_result as they were.
C22_EarlyFailureHasNoEffect ==
    [][\A t \in SendTasks, f \in Fens \cup {NoneFen}, r \in BOOLEAN :
          (FailsEarly(f, r) /\ SendLockFree /\ SendCall(t, f, r))
          => /\ ev'.res \in EarlyFailures
             /\ ev'.called # "set_position"
             /\ pc' = pc
             /\ driven_fen' = driven_fen
             /\ state' = state
             /\ last_sent_fen' = last_sent_fen
             /\ last_send_result' = last_send_result]_vars

\* a send of another position was refused on a board that has been
\* disconnected after a successful send
C22_Witness ==
    /\ ev.op = "send_to_board"
    /\ ev.res = "not_connected"
    /\ state = "POSITION_SENT"
    /\ last_sent_fen # NoneFen
    /\ last_send_result = "SUCCESS"
    /\ \A t \in Tasks : pc[t] = "idle"

\* C23: once last_sent_fen is set, the only step that changes it is the
\* return of a send_to_board driver call with SUCCESS; on_pdf_opened,
\* on_pdf_closed, on_viewport_changed, select_diagram, recognize_diagram,
\* clear_cache, failed or short-circuited sends, emergency_stop and
\* connect/disconnect leave it as it is.
C23_LastSentFenPersists ==
    [][(last_sent_fen # NoneFen /\ last_sent_fen' # last_sent_fen)
          => \E t \in SendTasks \cup DebTasks : DriverReturn(t, "SUCCESS")]_vars

\* the results of a send_to_board call other than SUCCESS
SendFailures == EarlyFailures \cup {"FAILED", "IN_PROGRESS", "CANCELLED"}

\* C24: every recognize_diagram call that fails and every send_to_board call
\* that returns a non-SUCCESS result (not connected, no position, no FEN,
\* confirmation required, driver rejected, driver exception) makes an
\* on_error notification to every registered observer.
C24_EveryFailureIsNotified ==
    [][(\/ ev'.op = "recognize_diagram" /\ ev'.rec = "none:error"
        \/ ev'.op = "send_to_board" /\ ev'.res \in SendFailures)
          => \A i \in 1..Len(observers) :
                \E j \in 1..Len(ev'.notes) :
                   /\ ev'.notes[j].kind = "error"
                   /\ ev'.notes[j].to = observers[i]]_vars

\* C25: recognize_diagram without a candidate argument while
\* active_candidate is none returns none without acquiring the recognition
\* lock, without invoking the backend or the image_getter and without
\* notifying observers, and leaves the workflow state and the Context
\* unchanged, also while another recognition is in flight.
C25_NoCandidateIsNoOp ==
    [][\A t \in RecTasks, g \in BOOLEAN :
          (active_candidate = NoCand /\ RecognizeCall(t, NoCand, g))
          => /\ ev'.rec = "none:nocandidate"
             /\ ev'.pos = NoPos
             /\ ev'.called = "-"
             /\ ev'.notes = <<>>
             /\ rlock' = rlock
             /\ pc' = pc
             /\ ctx' = ctx]_vars

\* the call has returned while another recognition holds the lock inside the
\* backend
C25_Witness ==
    /\ ev.op = "recognize_diagram"
    /\ ev.rec = "none:nocandidate"
    /\ active_candidate = NoCand
    /\ rlock.locked
    /\ \E t \in RecTasks : pc[t] = "in_backend"

\* the outcomes with which recognize_diagram returns none to its caller
NoneReturns == {"none:nocandidate", "none:nogetter", "none:error"}

\* C26: recognize_diagram for a candidate that is not in the cache, called
\* without an image_getter, fails loudly: the caller is signalled a contract
\* violation instead of getting none, and the backend is not invoked.
C26_MissingImageGetterFailsLoudly ==
    [][\A t \in RecTasks, c \in Cands :
          (/\ recognition_cache[c.candidate_id] = NoPos
           /\ RecognitionLockFree
           /\ RecognizeCall(t, c, FALSE))
          => /\ ev'.rec \notin NoneReturns
             /\ ev'.called # "backend"]_vars

\* C27: an entry of recognition_cache is removed or overwritten only by
\* clear_cache or on_pdf_closed; selection, viewport changes, recognition
\* (success, cache hit or failure), sends and the emergency stop leave every
\* existing entry as it is.
C27_CacheLifetime ==
    [][\A i \in CandIds :
          (recognition_cache[i] # NoPos
              /\ recognition_cache'[i] # recognition_cache[i])
          => (clear_cache \/ on_pdf_closed)]_vars

\* an entry that outlived the selection of another diagram and a recognition
\* of its own diagram answered from the cache
C27_Witness ==
    \E i \in CandIds :
        /\ recognition_cache[i] # NoPos
        /\ active_candidate # NoCand
        /\ active_candidate.candidate_id # i
        /\ ev.op = "recognize_diagram"
        /\ ev.rec = "hit"
        /\ ev.cand = i

\* C28: a fired debounce task goes on to send_to_board only if the
\* recognize_diagram call it just made returned a position, and that
\* position is high-confidence; when that recognition returns none the task
\* sends nothing, whatever recognized_position the Context still holds.
C28_AutoSendFollowsOwnRecognition ==
    [][\A d \in DebTasks :
          (/\ DebounceFire(d) \/ DebounceResumeRecognize(d)
           /\ ev'.res \notin {"-", "no_send"})
          => /\ ev'.rec = "hit"
             /\ is_high_confidence(ev'.pos)]_vars

\* C29: change detection in on_viewport_changed is by candidate_id: a
\* Selector result with the candidate_id of active_candidate counts as
\* unchanged (no notification, no transition, no debounce re-arm) even if
\* its other fields differ, and a result with another candidate_id always
\* counts as changed.
C29_ChangeDetectionById ==
    [][\A v \in Viewports, q \in Detections :
          on_viewport_changed(0, v, q)
          => LET result == select_topmost_visible(q, v,
                                                  min_visibility_fraction)
             IN  IF result.candidate_id = active_candidate.candidate_id
                 THEN /\ ev'.notes = <<>>
                      /\ ev'.res # "changed"
                      /\ UNCHANGED <<active_candidate, state>>
                      /\ DebounceUntouched
                 ELSE /\ ev'.res = "changed"
                      /\ active_candidate' = result]_vars

\* how often observer o is called for notification k among the callbacks n
TimesCalled(n, k, o) ==
    Cardinality({i \in 1..Len(n) : <<n[i].kind, n[i].arg>> = k /\ n[i].to = o})

\* C30: the observer list is ordered and de-duplicated: after any sequence
\* of add_observer and remove_observer calls each observer appears at most
\* once, add_observer of a registered observer changes nothing, and every
\* notification calls each registered observer exactly once, in registration
\* order.
C30_ObserverListOrderedDeduplicated ==
    [][/\ \A i, j \in 1..Len(observers') :
             observers'[i] = observers'[j] => i = j
       /\ \A o \in ObserverIds :
             (Registered(o) /\ add_observer(o)) => observers' = observers
       /\ \A k \in Notifications(ev'.notes) :
             /\ \A o \in ObserverIds :
                   TimesCalled(ev'.notes, k, o) = IF Registered(o) THEN 1 ELSE 0
             /\ Recipients(ev'.notes, k) = observers]_vars

\* two observers registered against the order of their names, both called
\* once, in registration order
C30_Witness ==
    /\ observers = <<"o2", "o1">>
    /\ Len(ev.notes) = 2
    /\ ev.notes[1].to = "o2"
    /\ ev.notes[2].to = "o1"

\* C31: on_pdf_opened, from any state, moves to PDF_LOADED with the new
\* path and candidates installed, current_page 0, active_candidate none and
\* recognized_position none: the active diagram and the recognized position
\* of the document open before do not persist.
C31_OpenInstallsFreshDocument ==
    [][\A path \in Paths, m \in CandidateMaps :
          on_pdf_opened(path, m)
          => /\ state' = "PDF_LOADED"
             /\ current_pdf_path' = path
             /\ all_candidates' = m
             /\ current_page' = 0
             /\ active_candidate' = NoCand
             /\ recognized_position' = NoPos]_vars

\* a document opened after a diagram of the document before was recognized
\* and sent
C31_Witness ==
    /\ state = "PDF_LOADED"
    /\ ev = Quiet
    /\ current_pdf_path = "b.pdf"
    /\ current_page = 0
    /\ active_candidate = NoCand
    /\ recognized_position = NoPos
    /\ recognition_cache[CandA.candidate_id] # NoPos
    /\ last_sent_fen # NoneFen

\* C32: emergency_stop causes no state transition: in every workflow state
\* it forwards to BoardDriver.stop_motion, and from its call to its return
\* it leaves the workflow state, every Context field and both locks as they
\* are.
C32_EmergencyStopChangesNothing ==
    [][(emergency_stop \/ \E r \in BOOLEAN : StopReturn(r))
          => /\ ctx' = ctx
             /\ doc' = doc
             /\ rlock' = rlock
             /\ slock' = slock
             /\ emergency_stop => ev'.called = "stop_motion"]_vars

\* an emergency stop whose stop_motion raised while a send was inside the
\* driver call
C32_Witness ==
    /\ ev.op = "emergency_stop"
    /\ ev.res = "raised"
    /\ pc[EStop] = "idle"
    /\ state = "SENDING_TO_BOARD"
    /\ slock.locked

\* boxes whose closed extents meet but that share no inner point: they
\* touch along an edge or at a corner
SharesOnlyEdge(a, b) ==
    /\ a.x0 <= b.x1 /\ b.x0 <= a.x1 /\ a.y0 <= b.y1 /\ b.y0 <= a.y1
    /\ \/ a.x1 = b.x0 \/ b.x1 = a.x0 \/ a.y1 = b.y0 \/ b.y1 = a.y0

Inside(a, b) ==
    a.x0 >= b.x0 /\ a.x1 <= b.x1 /\ a.y0 >= b.y0 /\ a.y1 <= b.y1

\* C33: for all boxes with x1 >= x0 and y1 >= y0, intersects and
\* intersection_area are symmetric, boxes that only share an edge intersect
\* with intersection_area 0, intersection_area lies between 0 and the area
\* of either box, and visibility_fraction is 0 when the box's area is 0 and
\* otherwise intersection_area / area, within [0, 1] and 1 when the box lies
\* inside the viewport.
C33_Geometry ==
    geo.called =>
        LET a == geo.self
            b == geo.other
            f == geo.visibility_fraction
        IN  /\ geo.intersects[1] = geo.intersects[2]
            /\ geo.intersection_area[1] = geo.intersection_area[2]
            /\ SharesOnlyEdge(a, b)
                  => geo.intersects[1] /\ geo.intersection_area[1] = 0
            /\ geo.intersection_area[1] >= 0
            /\ geo.intersection_area[1] <= area(a)
            /\ geo.intersection_area[1] <= area(b)
            /\ area(a) = 0 => f.num = 0
            /\ area(a) # 0
                  => f.num = geo.intersection_area[1] /\ f.den = area(a)
            /\ f.den > 0 /\ 0 <= f.num /\ f.num <= f.den
            /\ (Inside(a, b) /\ area(a) # 0) => f.num = f.den

\* two boxes with an area that share one whole edge
C33_Witness ==
    /\ geo.called
    /\ geo.self.x1 = geo.other.x0
    /\ geo.self.y0 = geo.other.y0
    /\ geo.self.y1 = geo.other.y1
    /\ area(geo.self) > 0
    /\ area(geo.other) > 0
    /\ geo.intersects[1]
    /\ geo.intersection_area[1] = 0

\* the Context as on_pdf_closed leaves it
FreshContext ==
    /\ state = "IDLE"
    /\ active_candidate = NoCand
    /\ recognized_position = NoPos
    /\ recognition_cache = [i \in CandIds |-> NoPos]
    /\ last_sent_fen = NoneFen
    /\ last_send_result = "None"

\* a step of work that is already under way: a task resumes or a backend or
\* driver call resolves
Continuation ==
    \/ \E t \in RecTasks : RecognizeResume(t)
    \/ \E t \in RecTasks, r \in BackendResults \cup {BackendRaise} :
          BackendReturn(t, r)
    \/ \E t \in SendTasks : SendResume(t)
    \/ \E t \in SendTasks \cup DebTasks, o \in DriverOutcomes :
          DriverReturn(t, o)
    \/ \E d \in DebTasks :
          \/ DebounceFire(d)
          \/ DebounceResumeRecognize(d)
          \/ DebounceResumeSend(d)

\* C34: closing a document discards its outstanding work: once on_pdf_closed
\* has returned, work started before it (a pending debounce task, an
\* in-flight recognize_diagram or send_to_board) that goes on as the very
\* next step changes neither the workflow state nor the fresh Context.
C34_CloseDiscardsOutstandingWork ==
    [][(ev = Closed /\ FreshContext /\ Continuation)
          => /\ state' = "IDLE"
             /\ recognition_cache' = recognition_cache
             /\ recognized_position' = NoPos
             /\ last_sent_fen' = NoneFen]_vars

\* a send_to_board call, explicit or of a debounce task, returns SUCCESS,
\* from the driver or as `Position already set`
ReturnsSuccess ==
    /\ ev'.op \in {"send_to_board", "debounce"}
    /\ ev'.res \in {"SUCCESS", "already_set"}
    /\ ev' # ev

\* C35: SUCCESS means the board holds the position: whenever send_to_board
\* returns SUCCESS, the `Position already set` short-circuit included, the
\* Board Driver is connected and the position it holds has the piece
\* placement of the target FEN, which is that of last_sent_fen.
C35_SuccessMeansBoardHoldsPosition ==
    [][ReturnsSuccess
          => /\ connection_status' = "CONNECTED"
             /\ last_sent_fen' # NoneFen
             /\ board_position' = fen_to_piece_map(last_sent_fen')]_vars

\* C36: disabling auto-sync stops the automatic work: while auto-sync is
\* disabled no debounce task fires, none goes on to its recognize_diagram
\* and none goes on to its send_to_board; a task still pending when
\* set_auto_sync(False) returns does not fire.
C36_DisabledAutoSyncStopsAutomaticWork ==
    [][(\E d \in DebTasks :
           \/ DebounceFire(d)
           \/ DebounceResumeRecognize(d)
           \/ DebounceResumeSend(d))
          => auto_sync_enabled]_vars

\* a step in which send_to_board, called without confirmation for the
\* recognized position, goes past its confidence gate to the driver
PassesGate ==
    /\ ev'.op \in {"send_to_board", "debounce"}
    /\ ev'.called = "set_position"
    /\ ~ev'.req
    /\ recognized_position' # NoPos

\* C37: min_confidence_for_auto governs automatic sending: after
\* set_min_confidence(c) a recognized position passes the confidence gate of
\* send_to_board, in a debounce task or in an unconfirmed send, exactly when
\* its overall_confidence >= c clamped to [0, 1].
C37_MinConfidenceGovernsAutoSend ==
    [][/\ PassesGate
          => recognized_position'.overall_confidence
                >= min_confidence_for_auto
       /\ (ev'.res = "low_confidence" /\ ev' # ev)
          => recognized_position'.overall_confidence
                < min_confidence_for_auto]_vars

\* C38: the recognized position belongs to the active diagram: whenever the
\* state is POSITION_RECOGNIZED, recognized_position.source_candidate_id is
\* the candidate_id of active_candidate, and a debounce task sends only the
\* position of the diagram that is active.
C38_RecognizedPositionBelongsToActive ==
    /\ state = "POSITION_RECOGNIZED"
          => recognized_position.source_candidate_id
                = active_candidate.candidate_id
    /\ \A d \in DebTasks :
          pc[d] = "in_driver"
             => recognized_position.source_candidate_id
                   = active_candidate.candidate_id

\* C39: state and Context are consistent under every interleaving: state in
\* {IDLE, PDF_LOADED} implies that active_candidate is none, and state =
\* POSITION_RECOGNIZED implies that recognized_position is not none.
C39_StateContextConsistency ==
    /\ state \in {"IDLE", "PDF_LOADED"} => active_candidate = NoCand
    /\ state = "POSITION_RECOGNIZED" => recognized_position # NoPos

\* a recognition that was in flight while the next document was opened has
\* resolved: no diagram is active and the position it produced is held
C39_Witness ==
    /\ state = "POSITION_RECOGNIZED"
    /\ current_pdf_path = "b.pdf"
    /\ active_candidate = NoCand
    /\ recognized_position # NoPos
    /\ ev.op = "recognize_diagram"
    /\ ev.rec = "recognized"

\* C40: auto-reconnect eventually reconnects: once the reconnect loop has
\* been started by an unexpected disconnection, and the device is reachable,
\* connection_status becomes CONNECTED again unless the caller calls
\* disconnect(); the loop is not stopped by its own connect attempt.
C40_AutoReconnectEventuallyReconnects ==
    (chessnut.task = "sleeping" /\ ~chessnut.cancel)
        ~> (chessnut.status = "CONNECTED" \/ chessnut.explicit)

====
